---- MODULE Spec2Model ----
(***************************************************************************)
(* Model of the fixed-point arithmetic core of ltitop:                     *)
(*   - ProcessingUnit's process-wide active-unit slot (scoped enter/exit), *)
(*   - Format (represent, best), the rounding and overflow policies,       *)
(*   - FixedFormatArithmeticLogicUnit and MultiFormatArithmeticLogicUnit.  *)
(*                                                                         *)
(* Real values are dyadic rationals [num, exp] standing for num * 2^exp    *)
(* (every float and every mpf is one).  A mantissa is [lo, hi, ivl]: a     *)
(* plain integer has lo = hi and ivl = FALSE, an Interval has ivl = TRUE.  *)
(* The outcome of a call is a record whose status is "ok" or the name of   *)
(* the exception the call raises.                                          *)
(***************************************************************************)
EXTENDS Integers, Sequences, FiniteSets, TLC

VARIABLES active, last_active, scopes, raised, unwound, observed,
          unit, acc, ret

vars == <<active, last_active, scopes, raised, unwound, observed,
          unit, acc, ret>>

puVars == <<active, last_active, scopes, raised, unwound, observed>>
aluVars == <<unit, acc, ret>>

(***************************************************************************)
(* Bounds of the model.                                                    *)
(***************************************************************************)
NumUnits == 3
MaxDepth == 3
\* wordlength of the units whose calls are chained, and of the units whose
\* calls are examined one by one
ChainWordlength == 2
FixedWordlength == 3
MultiWordlength == 3
\* fractional bits of the fractional formats
FixedFracBits == 2
MultiFracBits == 1
\* widest Interval operand handed to an operation
MaxIvlWidth == 1
\* bits of a real value below the LSB of the format it is represented in
ValueBits == 2

(***************************************************************************)
(* ProcessingUnit: the active-unit slot.                                   *)
(***************************************************************************)
Units == 1..NumUnits
None == 0

NoObservation == [status |-> "none", unit |-> None, at |-> <<>>]

\* ProcessingUnit.active(): the slot, or RuntimeError when it is None.
ActiveResult ==
    IF active = None
    THEN [status |-> "RuntimeError", unit |-> None, at |-> scopes]
    ELSE [status |-> "ok", unit |-> active, at |-> scopes]

\* An __enter__ that saves nothing in the instance
EnterSavedNothing(u) == last_active

\* __enter__: save the slot in the instance, then take the slot.
EnterSaved(u) == [last_active EXCEPT ![u] = active]

\* __exit__: restore the slot from the instance (exception info is ignored).
ExitRestoredBroken(u) == None
ExitRestored(u) == last_active[u]

Top(s) == s[Len(s)]
Front(s) == SubSeq(s, 1, Len(s) - 1)
InScopes(u) == \E i \in 1..Len(scopes) : scopes[i] = u

\* `with u:` over a unit that is not already entered.
Enter(u) ==
    /\ ~raised
    /\ Len(scopes) < MaxDepth
    /\ ~InScopes(u)
    /\ last_active' = EnterSaved(u)
    /\ active' = u
    /\ scopes' = Append(scopes, u)
    /\ UNCHANGED <<raised, unwound, observed, aluVars>>

\* The body of the innermost scope ends normally: __exit__(None, None, None).
ExitNormal ==
    /\ ~raised
    /\ scopes # <<>>
    /\ active' = ExitRestored(Top(scopes))
    /\ scopes' = Front(scopes)
    /\ UNCHANGED <<last_active, raised, unwound, observed, aluVars>>

\* The body of the innermost scope raises.
Raise ==
    /\ ~raised
    /\ scopes # <<>>
    /\ raised' = TRUE
    /\ UNCHANGED <<active, last_active, scopes, unwound, observed, aluVars>>

\* The exception leaves the innermost scope: __exit__(type, value, tb)
\* returns None, so the exception keeps propagating.
ExitRaised ==
    /\ raised
    /\ scopes # <<>>
    /\ active' = ExitRestored(Top(scopes))
    /\ scopes' = Front(scopes)
    /\ unwound' = TRUE
    /\ UNCHANGED <<last_active, raised, observed, aluVars>>

\* An enclosing try/except (at any nesting level) catches the exception.
Catch ==
    /\ raised
    /\ raised' = FALSE
    /\ UNCHANGED <<active, last_active, scopes, unwound, observed, aluVars>>

\* ProcessingUnit.active() is called.
Query ==
    /\ ~raised
    /\ observed' = ActiveResult
    /\ UNCHANGED <<active, last_active, scopes, raised, unwound, aluVars>>

IdleUnit == [kind |-> "none"]
IdleAcc == [status |-> "none"]
IdleRet == [status |-> "none"]

InitPU ==
    /\ active = None
    /\ last_active = [u \in Units |-> None]
    /\ scopes = <<>>
    /\ raised = FALSE
    /\ unwound = FALSE
    /\ observed = NoObservation
    /\ unit = IdleUnit
    /\ acc = IdleAcc
    /\ ret = IdleRet

NextPU ==
    \/ \E u \in Units : Enter(u)
    \/ ExitNormal
    \/ Raise
    \/ ExitRaised
    \/ Catch
    \/ Query

SpecPU == InitPU /\ [][NextPU]_vars

\* The unit that properly nested scopes make visible: the innermost one.
Innermost(s) == IF s = <<>> THEN None ELSE Top(s)

\* C1: with properly nested scopes over distinct units, whether left normally
\* or by an exception, the slot always holds the innermost entered unit (none
\* outside every scope), every entered unit remembers the unit that was active
\* just before its enter, and active() returns the innermost unit inside a
\* scope and fails with RuntimeError outside every scope.
C1_ActiveIsInnermost ==
    /\ active = Innermost(scopes)
    /\ \A i \in 1..Len(scopes) :
          last_active[scopes[i]] = (IF i = 1 THEN None ELSE scopes[i - 1])
    /\ observed.status = "ok" =>
          /\ observed.at # <<>>
          /\ observed.unit = Top(observed.at)
    /\ observed.status = "RuntimeError" => observed.at = <<>>
    /\ observed.status # "none" => observed.unit = Innermost(observed.at)

\* C1 witness: an inner scope was left by an exception, and active() asked
\* inside the remaining outer scope returned the outer unit.
C1_Witness ==
    /\ unwound
    /\ Len(scopes) = 1
    /\ observed.status = "ok"
    /\ observed.at = scopes
    /\ observed.unit = scopes[1]
    /\ \E u \in Units : u # scopes[1] /\ last_active[u] = scopes[1]

(***************************************************************************)
(* Formats, mantissas and intervals.                                       *)
(***************************************************************************)
Pow2(n) == 2 ^ n

Fmt(msb, lsb, signed) == [msb |-> msb, lsb |-> lsb, signed |-> signed]

SignBit(signed) == IF signed THEN 1 ELSE 0

\* Format.wordlength
Wordlength(f) == f.msb - f.lsb + SignBit(f.signed)

Range(lo, hi) == [lo |-> lo, hi |-> hi]

\* Format.mantissa_interval
MantissaInterval(f) ==
    IF f.signed
    THEN Range(-Pow2(Wordlength(f) - 1), Pow2(Wordlength(f) - 1) - 1)
    ELSE Range(0, Pow2(Wordlength(f)) - 1)

\* A mantissa: a plain integer (ivl = FALSE, lo = hi) or an Interval.
Scalar(v) == [lo |-> v, hi |-> v, ivl |-> FALSE]
Ivl(lo, hi) == [lo |-> lo, hi |-> hi, ivl |-> TRUE]

\* Interval.__contains__, and `lo <= v <= hi` for a plain integer.
Contains(r, m) == r.lo <= m.lo /\ m.hi <= r.hi

\* Format.overflows_with
OverflowsWith(f, m) == ~Contains(MantissaInterval(f), m)

\* Interval.__add__ / int.__add__ on operands of one kind.
MAdd(x, y) == [lo |-> x.lo + y.lo, hi |-> x.hi + y.hi, ivl |-> x.ivl]

\* Interval.__sub__ (lower - upper, upper - lower) / int.__sub__.
MSub(x, y) == [lo |-> x.lo - y.hi, hi |-> x.hi - y.lo, ivl |-> x.ivl]

Min2(a, b) == IF a <= b THEN a ELSE b
Max2(a, b) == IF a >= b THEN a ELSE b
Abs(a) == IF a >= 0 THEN a ELSE -a

(***************************************************************************)
(* Overflow policies: (value, range) -> (corrected value, overflow flag).  *)
(***************************************************************************)
WrapScalarOnce(v, r) ==
    IF v < r.lo
    THEN [v |-> v + (r.hi + 1 - r.lo), overflow |-> TRUE]
    ELSE IF v > r.hi
         THEN [v |-> v - (r.hi + 1 - r.lo), overflow |-> TRUE]
         ELSE [v |-> v, overflow |-> FALSE]

WrapScalar(v, r) ==
    IF v < r.lo \/ v > r.hi
    THEN [v |-> ((v - r.lo) % (r.hi + 1 - r.lo)) + r.lo, overflow |-> TRUE]
    ELSE [v |-> v, overflow |-> FALSE]

\* wraparound: an Interval with an overflowing bound becomes the whole range.
wraparound(m, r) ==
    IF m.ivl
    THEN LET l == WrapScalar(m.lo, r)
             u == WrapScalar(m.hi, r)
         IN  IF l.overflow \/ u.overflow
             THEN [m |-> Ivl(r.lo, r.hi), overflow |-> TRUE]
             ELSE [m |-> Ivl(l.v, u.v), overflow |-> FALSE]
    ELSE LET w == WrapScalar(m.lo, r)
         IN  [m |-> Scalar(w.v), overflow |-> w.overflow]

SatScalarUpperOnly(v, r) ==
    [v |-> Min2(v, r.hi), overflow |-> (v < r.lo \/ v > r.hi)]

SatScalar(v, r) ==
    [v |-> Min2(Max2(r.lo, v), r.hi), overflow |-> (v < r.lo \/ v > r.hi)]

\* saturate: clamp, bound-wise for an Interval.
saturate(m, r) ==
    IF m.ivl
    THEN LET l == SatScalar(m.lo, r)
             u == SatScalar(m.hi, r)
         IN  [m |-> Ivl(l.v, u.v), overflow |-> (l.overflow \/ u.overflow)]
    ELSE LET w == SatScalar(m.lo, r)
         IN  [m |-> Scalar(w.v), overflow |-> w.overflow]

OverflowPolicies == {"wraparound", "saturate"}

\* unit.overflow_behavior(mantissa, range_=...)
overflow_behavior(policy, m, r) ==
    IF policy = "wraparound" THEN wraparound(m, r) ELSE saturate(m, r)

(***************************************************************************)
(* Rounding policies.  apply works on a real x = num / 2^k (k >= 0);       *)
(* shift re-quantizes an integer mantissa by n bits without going through  *)
(* floating point.                                                         *)
(***************************************************************************)
RoundingPolicies == {"nearest", "floor", "ceil", "truncate"}

\* floor.apply: math.floor
FloorApply(num, k) == num \div Pow2(k)

\* ceil.apply: math.ceil
CeilApply(num, k) == -((-num) \div Pow2(k))

\* truncate.apply: math.trunc, or floor for x > 0 and ceil otherwise
TruncateApply(num, k) ==
    IF num > 0 THEN FloorApply(num, k) ELSE CeilApply(num, k)

\* nearest_integer.apply: Python's round(), which rounds ties to even
NearestApply(num, k) ==
    LET q == num \div Pow2(k)
        r == num % Pow2(k)
    IN  IF 2 * r < Pow2(k) THEN q
        ELSE IF 2 * r > Pow2(k) THEN q + 1
        ELSE IF q % 2 = 0 THEN q ELSE q + 1

Apply(R, num, k) ==
    CASE R = "nearest" -> NearestApply(num, k)
      [] R = "floor" -> FloorApply(num, k)
      [] R = "ceil" -> CeilApply(num, k)
      [] R = "truncate" -> TruncateApply(num, k)

\* floor.shift: value << n, value >> -n, or value
FloorShift(v, n) ==
    IF n > 0 THEN v * Pow2(n)
    ELSE IF n < 0 THEN v \div Pow2(-n)
    ELSE v

\* ceil.shift: -floor.shift(-value, n)
CeilShift(v, n) == -FloorShift(-v, n)

\* A shift that always rounds up to the next step
NearestShiftAlwaysUp(v, n) ==
    FloorShift(v, n) + (IF n < 0 THEN 1 ELSE 0)

\* nearest_integer.shift: floor.shift plus the bit just below the new LSB
NearestShift(v, n) ==
    FloorShift(v, n) + (IF n < 0 THEN (v \div Pow2(-n - 1)) % 2 ELSE 0)

ShiftOk(m) == [status |-> "ok", m |-> m]
ShiftFails(e) == [status |-> e, m |-> Scalar(0)]

\* R.shift(value, n) on a plain integer.  truncate.shift stacks the floor and
\* ceil results in a one-dimensional array and then reads results.shape[1],
\* which a plain integer does not have.
ShiftScalar(R, v, n) ==
    CASE R = "nearest" -> ShiftOk(Scalar(NearestShift(v, n)))
      [] R = "floor" -> ShiftOk(Scalar(FloorShift(v, n)))
      [] R = "ceil" -> ShiftOk(Scalar(CeilShift(v, n)))
      [] R = "truncate" -> ShiftFails("IndexError")

\* R.shift(value, n) on a mantissa; an Interval is shifted bound-wise.
Shift(R, m, n) ==
    IF m.ivl
    THEN LET l == ShiftScalar(R, m.lo, n)
             u == ShiftScalar(R, m.hi, n)
         IN  IF l.status # "ok" THEN l
             ELSE IF u.status # "ok" THEN u
             ELSE ShiftOk(Ivl(l.m.lo, u.m.lo))
    ELSE ShiftScalar(R, m.lo, n)

(***************************************************************************)
(* Real values and quantization.                                           *)
(***************************************************************************)
Real(num, exp) == [num |-> num, exp |-> exp]

\* A quantization that scales the value by one bit less than asked
mpquantizeCoarse(v, nbits, R) ==
    IF v.exp + nbits - 1 >= 0
    THEN v.num * Pow2(v.exp + nbits - 1)
    ELSE Apply(R, v.num, -(v.exp + nbits - 1))

\* mpquantize(value, nbits, rounding_method):
\* int(rounding_method.apply(ldexp(value, nbits)))
mpquantize(v, nbits, R) ==
    IF v.exp + nbits >= 0
    THEN v.num * Pow2(v.exp + nbits)
    ELSE Apply(R, v.num, -(v.exp + nbits))

\* Format.value_interval as mantissas: v is inside it iff
\* lo * 2^lsb <= v <= hi * 2^lsb for the bounds of mantissa_interval.
CanRepresent(f, v) ==
    LET r == MantissaInterval(f)
    IN  IF v.exp >= f.lsb
        THEN /\ r.lo <= v.num * Pow2(v.exp - f.lsb)
             /\ v.num * Pow2(v.exp - f.lsb) <= r.hi
        ELSE /\ r.lo * Pow2(f.lsb - v.exp) <= v.num
             /\ v.num <= r.hi * Pow2(f.lsb - v.exp)

Represented(status, m, underflow, overflow) ==
    [status |-> status, m |-> m, underflow |-> underflow, overflow |-> overflow]

\* A represent that flags every zero mantissa as an underflow and wraps the
\* mantissa of a signed format instead of flagging the overflow
RepresentRealCorrecting(f, v, R) ==
    IF ~f.signed /\ ~(v.num >= 0)
    THEN Represented("ValueError", Scalar(0), FALSE, FALSE)
    ELSE LET mantissa == Scalar(mpquantize(v, -f.lsb, R))
         IN  Represented("ok", wraparound(mantissa, MantissaInterval(f)).m,
                         mantissa.lo = 0, FALSE)

\* Format.represent(rvalue, rounding_method) for a real rvalue.
RepresentReal(f, v, R) ==
    IF ~f.signed /\ ~(v.num >= 0)
    THEN Represented("ValueError", Scalar(0), FALSE, FALSE)
    ELSE LET mantissa == Scalar(mpquantize(v, -f.lsb, R))
         IN  Represented("ok", mantissa,
                         mantissa.lo = 0 /\ v.num # 0,
                         ~Contains(MantissaInterval(f), mantissa))

\* Interval.__eq__(0) / int.__eq__(0)
IsZero(m) == m.lo = 0 /\ m.hi = 0

\* Format.represent(rvalue, rounding_method) for a Representation rvalue: the
\* mantissa is shifted by rvalue.format_.lsb - self.lsb bits.
RepresentRepr(f, x, R) ==
    IF ~f.signed /\ ~(x.m.lo >= 0)
    THEN Represented("ValueError", Scalar(0), FALSE, FALSE)
    ELSE LET q == Shift(R, x.m, x.format.lsb - f.lsb)
         IN  IF q.status # "ok"
             THEN Represented(q.status, Scalar(0), FALSE, FALSE)
             ELSE Represented("ok", q.m,
                              IsZero(q.m) /\ ~IsZero(x.m),
                              ~Contains(MantissaInterval(f), q.m))

\* Representation(mantissa, format_): the range check of __post_init__.
Repr(m, f) == [m |-> m, format |-> f]
ReprValid(m, f) == Contains(MantissaInterval(f), m)

(***************************************************************************)
(* ProcessingUnit.__init__: the per-operation permissions.  allows_overflow *)
(* and allows_underflow are given as lists of operations (True stands for  *)
(* every operation of the class, False for none).                          *)
(***************************************************************************)
AllOps == {"represent", "add", "substract", "multiply", "negate",
           "compare", "lshift", "rshift"}

\* op.allows_overflow as annotated by the constructor
AllowsOverflow(u, op) ==
    CASE op = "lshift" -> "rshift" \in u.allows_overflow
      [] op = "negate" -> \/ "negate" \in u.allows_overflow
                          \/ "substract" \in u.allows_overflow
                          \/ "multiply" \in u.allows_overflow
      [] OTHER -> op \in u.allows_overflow

\* op.allows_underflow as annotated by the constructor
AllowsUnderflow(u, op) == op \in u.allows_underflow

(***************************************************************************)
(* Outcomes of ALU calls.  An error of ltitop.arithmetic.errors carries    *)
(* (value, limits) or (value, epsilon): value is err_value * 2^err_exp and  *)
(* the limits are err_limits * 2^err_exp; err_given tells whether the      *)
(* raise statement passed them at all.                                     *)
(***************************************************************************)
NoFormat == Fmt(0, 0, FALSE)
NoRange == Range(0, 0)

Outcome(status, m, f, given, value, exp, limits, lim_exp) ==
    [status |-> status, m |-> m, format |-> f, err_given |-> given,
     err_value |-> value, err_exp |-> exp,
     err_limits |-> limits, err_lim_exp |-> lim_exp]

Returned(m, f) == Outcome("ok", m, f, FALSE, Scalar(0), 0, NoRange, 0)

\* an exception that is not one of ltitop.arithmetic.errors
Raised(e) == Outcome(e, Scalar(0), NoFormat, FALSE, Scalar(0), 0, NoRange, 0)

\* errors.OverflowError(message, value, limits): value is value * 2^exp and
\* limits is limits * 2^lim_exp
RaisedOverflow(value, exp, limits, lim_exp) ==
    Outcome("errors.OverflowError", Scalar(0), NoFormat, TRUE,
            value, exp, limits, lim_exp)

\* errors.UnderflowError(message, value, epsilon): epsilon is 1 * 2^eps_exp
RaisedUnderflow(value, exp, eps_exp) ==
    Outcome("errors.UnderflowError", Scalar(0), NoFormat, TRUE,
            value, exp, Range(1, 1), eps_exp)

\* errors.UnderflowError(message): value and epsilon stay None
RaisedBareUnderflow ==
    Outcome("errors.UnderflowError", Scalar(0), NoFormat, FALSE,
            Scalar(0), 0, NoRange, 0)

\* Representation(mantissa, format_) as the value a call returns: the
\* constructor's range check raises ValueError.
Construct(m, f) ==
    IF ReprValid(m, f) THEN Returned(m, f) ELSE Raised("ValueError")

(***************************************************************************)
(* FixedFormatArithmeticLogicUnit                                          *)
(***************************************************************************)
FixedUnit(f, R, policy, ao, au) ==
    [kind |-> "fixed", format |-> f, wordlength |-> Wordlength(f),
     rounding |-> R, overflow |-> policy,
     allows_overflow |-> ao, allows_underflow |-> au]

\* The overflow branch shared by add, substract and multiply: raise
\* OverflowError(value, value_interval) when the operation does not allow
\* overflow, else return the overflow policy's mantissa.
FixedOverflowAlwaysCorrects(u, op, mantissa, value, exp) ==
    Construct(overflow_behavior(u.overflow, mantissa,
                                MantissaInterval(u.format)).m,
              u.format)
FixedOverflow(u, op, mantissa, value, exp) ==
    IF ~AllowsOverflow(u, op)
    THEN RaisedOverflow(value, exp, MantissaInterval(u.format), u.format.lsb)
    ELSE Construct(overflow_behavior(u.overflow, mantissa,
                                     MantissaInterval(u.format)).m,
                   u.format)

\* internals.operation_method: every operand must be in the unit's format
FixedAccepts(u, x) == x.format = u.format

\* FixedFormatArithmeticLogicUnit.add
FixedAdd(u, x, y) ==
    IF ~FixedAccepts(u, x) \/ ~FixedAccepts(u, y) THEN Raised("ValueError")
    ELSE LET mantissa == MAdd(x.m, y.m)
         IN  IF OverflowsWith(u.format, mantissa)
             THEN FixedOverflow(u, "add", mantissa, mantissa, u.format.lsb)
             ELSE Construct(mantissa, u.format)

\* FixedFormatArithmeticLogicUnit.substract
FixedSubstract(u, x, y) ==
    IF ~FixedAccepts(u, x) \/ ~FixedAccepts(u, y) THEN Raised("ValueError")
    ELSE LET mantissa == MSub(x.m, y.m)
         IN  IF OverflowsWith(u.format, mantissa)
             THEN FixedOverflow(u, "substract", mantissa, mantissa,
                                u.format.lsb)
             ELSE Construct(mantissa, u.format)

Min4(a, b, c, d) == Min2(Min2(a, b), Min2(c, d))
Max4(a, b, c, d) == Max2(Max2(a, b), Max2(c, d))

\* Interval.__mul__ (min and max of the four bound products) / int.__mul__
MMul(x, y) ==
    [lo |-> Min4(x.lo * y.lo, x.lo * y.hi, x.hi * y.lo, x.hi * y.hi),
     hi |-> Max4(x.lo * y.lo, x.lo * y.hi, x.hi * y.lo, x.hi * y.hi),
     ivl |-> x.ivl]

\* The 2 * wordlength format of the multiplier
DoubleFormat(f) == Fmt(f.msb * 2 + 1, f.lsb * 2, f.signed)

\* FixedFormatArithmeticLogicUnit.multiply
FixedMultiply(u, x, y) ==
    IF ~FixedAccepts(u, x) \/ ~FixedAccepts(u, y) THEN Raised("ValueError")
    ELSE LET zm == MMul(x.m, y.m)
             zf == DoubleFormat(u.format)
         IN  IF ~ReprValid(zm, zf) THEN Raised("ValueError")
             ELSE LET q == RepresentRepr(u.format, Repr(zm, zf), u.rounding)
                  IN  IF q.status # "ok" THEN Raised(q.status)
                      ELSE IF q.underflow /\ ~AllowsUnderflow(u, "multiply")
                      THEN RaisedUnderflow(zm, zf.lsb, u.format.lsb)
                      ELSE IF q.overflow
                      THEN FixedOverflow(u, "multiply", q.m, zm, zf.lsb)
                      ELSE Construct(q.m, u.format)

\* FixedFormatArithmeticLogicUnit.represent of a real value: always rounds
\* to nearest, whatever the unit's rounding method.
FixedRepresent(u, v) ==
    LET q == RepresentReal(u.format, v, "nearest")
    IN  IF q.status # "ok" THEN Raised(q.status)
        ELSE IF q.underflow /\ ~AllowsUnderflow(u, "represent")
        THEN RaisedUnderflow(Scalar(v.num), v.exp, u.format.lsb)
        ELSE IF q.overflow
        THEN FixedOverflow(u, "represent", q.m, Scalar(v.num), v.exp)
        ELSE Construct(q.m, u.format)

(***************************************************************************)
(* MultiFormatArithmeticLogicUnit                                          *)
(***************************************************************************)
MultiUnit(w, R, policy, ao, au) ==
    [kind |-> "multi", format |-> NoFormat, wordlength |-> w,
     rounding |-> R, overflow |-> policy,
     allows_overflow |-> ao, allows_underflow |-> au]

\* internals.operation_method: no operand wider than the unit, no mixed signs
MultiAccepts(u, x, y) ==
    /\ Wordlength(x.format) <= u.wordlength
    /\ Wordlength(y.format) <= u.wordlength
    /\ x.format.signed = y.format.signed

\* MultiFormatArithmeticLogicUnit._find_common_format
find_common_format(u, fx, fy) ==
    IF fx = fy THEN fx
    ELSE LET msb == Max2(fx.msb, fy.msb)
             lsb == Min2(fx.lsb, fy.lsb)
         IN  IF msb - lsb + SignBit(fx.signed) > u.wordlength
             THEN Fmt(msb, msb - u.wordlength + SignBit(fx.signed), fx.signed)
             ELSE Fmt(msb, lsb, fx.signed)

Aligned(status, m) == [status |-> status, m |-> m]

\* MultiFormatArithmeticLogicUnit._align_operand_mantissa
align_operand_mantissa(u, value, f, allows_underflow) ==
    IF value.format = f THEN Aligned("ok", value.m)
    ELSE LET q == RepresentRepr(f, value, u.rounding)
         IN  IF q.status # "ok" THEN Aligned(q.status, Scalar(0))
             ELSE IF q.underflow /\ ~allows_underflow
             THEN Aligned("errors.UnderflowError", Scalar(0))
             ELSE IF q.overflow THEN Aligned("AssertionError", Scalar(0))
             ELSE Aligned("ok", q.m)

\* An exception raised while aligning: UnderflowError(message) has no payload.
RaisedAligning(e) ==
    IF e = "errors.UnderflowError" THEN RaisedBareUnderflow ELSE Raised(e)

\* The format _handle_overflow grows into: off_by more MSB bits, at the
\* unit's wordlength.
GrownFormat(u, f, off_by) ==
    Fmt(f.msb + off_by,
        f.msb + off_by - u.wordlength + SignBit(f.signed), f.signed)

\* MultiFormatArithmeticLogicUnit._handle_overflow followed by the caller's
\* type(x)(mantissa, format_)
handle_overflow(u, op, mantissa, f, off_by) ==
    IF ~AllowsOverflow(u, op)
    THEN LET extended == Fmt(f.msb + off_by, f.lsb, f.signed)
             grown == GrownFormat(u, f, off_by)
         IN  IF ~ReprValid(mantissa, extended) THEN Raised("ValueError")
             ELSE LET q == RepresentRepr(grown, Repr(mantissa, extended),
                                         u.rounding)
                  IN  IF q.status # "ok" THEN Raised(q.status)
                      ELSE IF q.underflow \/ q.overflow
                      THEN Raised("AssertionError")
                      ELSE Construct(q.m, grown)
    ELSE Construct(overflow_behavior(u.overflow, mantissa,
                                     MantissaInterval(f)).m, f)

\* MultiFormatArithmeticLogicUnit.add
MultiAdd(u, x, y) ==
    IF ~MultiAccepts(u, x, y) THEN Raised("ValueError")
    ELSE LET fz == find_common_format(u, x.format, y.format)
             ax == align_operand_mantissa(u, x, fz, AllowsUnderflow(u, "add"))
             ay == align_operand_mantissa(u, y, fz, AllowsUnderflow(u, "add"))
         IN  IF ax.status # "ok" THEN RaisedAligning(ax.status)
             ELSE IF ay.status # "ok" THEN RaisedAligning(ay.status)
             ELSE IF OverflowsWith(fz, MAdd(ax.m, ay.m))
             THEN handle_overflow(u, "add", MAdd(ax.m, ay.m), fz, 1)
             ELSE Construct(MAdd(ax.m, ay.m), fz)

\* MultiFormatArithmeticLogicUnit.substract: the result of
\* _align_operand_mantissa (a mantissa) is unpacked as a pair, which neither
\* a plain integer nor an Interval of integers supports.
MultiSubstract(u, x, y) ==
    IF ~MultiAccepts(u, x, y) THEN Raised("ValueError")
    ELSE LET fz == find_common_format(u, x.format, y.format)
             ax == align_operand_mantissa(u, x, fz,
                                          AllowsUnderflow(u, "substract"))
         IN  IF ax.status # "ok" THEN RaisedAligning(ax.status)
             ELSE Raised("TypeError")

(***************************************************************************)
(* Format.best                                                             *)
(***************************************************************************)
RECURSIVE FloorLog2(_)
\* floor(log2(n)) for an integer n >= 1
FloorLog2(n) == IF n <= 1 THEN 0 ELSE 1 + FloorLog2(n \div 2)

\* ceil(log2(n)) for an integer n >= 1
CeilLog2(n) == IF Pow2(FloorLog2(n)) = n THEN FloorLog2(n) ELSE FloorLog2(n) + 1

\* mpmsb(value, signed) for a real value; -inf (value = 0) is replaced by 0
\* as Format.best does.  mpmath takes both logarithms with 20 guard bits
\* and log(2^n) as n * ln 2, so the quotient is exact at the powers of two,
\* and the 20 * wordlength working bits separate every other value of the
\* sizes used here from them.
mpmsb(v, signed) ==
    IF v.num > 0 THEN FloorLog2(v.num) + v.exp + SignBit(signed)
    ELSE IF v.num < 0 THEN CeilLog2(-v.num) + v.exp
    ELSE 0

Best(status, m, f) == [status |-> status, m |-> m, format |-> f]

\* The MSB after the limits check of Format.best
AdjustedMsb(mantissa, msb, wordlength, signed) ==
    LET up == IF ~(mantissa < Pow2(wordlength - SignBit(signed)))
              THEN msb + 1 ELSE msb
    IN  IF mantissa < 0 /\ wordlength >= 2
           /\ mantissa > -Pow2(wordlength - 2)
        THEN msb - 1
        ELSE up

\* Format.best(value, wordlength, rounding_method, signed) for a real value.
\* When the MSB is adjusted the value is quantized again with
\* rounding_method=mpmath.nint, a function without the `apply` attribute
\* that mpquantize calls.
FormatBest(v, wordlength, R, signed) ==
    IF ~(v.num >= 0) /\ ~signed THEN Best("ValueError", 0, NoFormat)
    ELSE LET msb == mpmsb(v, signed)
             lsb == msb - wordlength + SignBit(signed)
             mantissa == mpquantize(v, -lsb, R)
         IN  IF AdjustedMsb(mantissa, msb, wordlength, signed) # msb
             THEN Best("AttributeError", 0, NoFormat)
             ELSE Best("ok", mantissa, Fmt(msb, lsb, signed))

\* MultiFormatArithmeticLogicUnit.multiply
MultiMultiply(u, x, y) ==
    IF ~MultiAccepts(u, x, y) THEN Raised("ValueError")
    ELSE LET fz == Fmt(x.format.msb + y.format.msb,
                       x.format.lsb + y.format.lsb, x.format.signed)
             mz == MMul(x.m, y.m)
         IN  IF Wordlength(fz) > u.wordlength
             THEN IF ~ReprValid(mz, fz) THEN Raised("ValueError")
                  ELSE LET b == FormatBest(Real(mz.lo, fz.lsb), u.wordlength,
                                           u.rounding, fz.signed)
                       IN  IF b.status # "ok" THEN Raised(b.status)
                           ELSE Construct(Scalar(b.m), b.format)
             ELSE Construct(mz, fz)

\* MultiFormatArithmeticLogicUnit.represent(value, format_=f) of a real
\* value.  The module imports UnderflowError only, so the OverflowError it
\* raises is Python's builtin; both are raised with a message alone.
MultiRepresent(u, v, f) ==
    IF Wordlength(f) > u.wordlength THEN Raised("ValueError")
    ELSE LET q == RepresentReal(f, v, u.rounding)
         IN  IF q.status # "ok" THEN Raised(q.status)
             ELSE IF q.underflow /\ ~AllowsUnderflow(u, "represent")
             THEN RaisedBareUnderflow
             ELSE IF q.overflow
             THEN IF ~AllowsOverflow(u, "represent")
                  THEN Raised("builtins.OverflowError")
                  ELSE Construct(overflow_behavior(u.overflow, q.m,
                                                   MantissaInterval(f)).m, f)
             ELSE Construct(q.m, f)

(***************************************************************************)
(* Operands.                                                               *)
(***************************************************************************)
AllowArgs == {AllOps, {}, {"add"}}

\* Plain-integer mantissas of format f
Scalars(f) == { Scalar(v) : v \in MantissaInterval(f).lo..MantissaInterval(f).hi }

\* Interval mantissas of format f, no wider than MaxIvlWidth
Intervals(f) ==
    { Ivl(lo, lo + w) : lo \in MantissaInterval(f).lo..MantissaInterval(f).hi,
                        w \in 0..MaxIvlWidth } \cap
    { Ivl(lo, hi) : lo \in MantissaInterval(f).lo..MantissaInterval(f).hi,
                    hi \in MantissaInterval(f).lo..MantissaInterval(f).hi }

\* Mantissas of format f of one kind (plain integer or Interval)
Mantissas(f, ivl) == IF ivl THEN Intervals(f) ELSE Scalars(f)

\* Real values around the range of format f, ValueBits finer than its LSB
Reals(f) ==
    { Real(num, f.lsb - ValueBits) :
        num \in -Pow2(Wordlength(f) + ValueBits)..Pow2(Wordlength(f) + ValueBits) }

NoRepr == Repr(Scalar(0), NoFormat)

\* A call of an operation on Representations x and y, or of represent on a
\* real value v and a format f, and its outcome
Call(op, x, y, out) ==
    [op |-> op, x |-> x, y |-> y, v |-> Real(0, 0), f |-> NoFormat,
     R |-> "none", out |-> out]
CallOnValue(op, v, f, R, out) ==
    [op |-> op, x |-> NoRepr, y |-> NoRepr, v |-> v, f |-> f,
     R |-> R, out |-> out]

NoCall == Call("none", NoRepr, NoRepr, Raised("none"))

\* A call about to be made
Pending(op, x, y) == Call(op, x, y, Raised("pending"))
PendingOnValue(op, v, f, R) == CallOnValue(op, v, f, R, Raised("pending"))
IsPending(op) == ret.op = op /\ ret.out.status = "pending"

NoScopes ==
    /\ active = None
    /\ last_active = [u \in Units |-> None]
    /\ scopes = <<>>
    /\ raised = FALSE
    /\ unwound = FALSE
    /\ observed = NoObservation

(***************************************************************************)
(* A fixed-format unit at work: a unit is constructed with the default     *)
(* rounding method, and the running result, starting from zero, is added   *)
(* to or substracted from by further operands of the unit's format.        *)
(***************************************************************************)
ChainFormats ==
    { Fmt(-FixedFracBits + ChainWordlength - SignBit(signed), -FixedFracBits,
          signed) : signed \in BOOLEAN }

ChainUnits ==
    { FixedUnit(f, "floor", policy, ao, AllOps) :
        f \in ChainFormats, policy \in OverflowPolicies, ao \in AllowArgs }

\* The running result after a call: the returned Representation, or the old
\* one when the call raised.
Kept(out) == IF out.status = "ok" THEN Repr(out.m, out.format) ELSE acc

InitFixed ==
    /\ NoScopes
    /\ unit \in ChainUnits
    /\ acc \in { Repr(m, unit.format) : m \in {Scalar(0), Ivl(0, 0)} }
    /\ ret = NoCall

DoAdd(y) ==
    /\ ret' = Call("add", acc, y, FixedAdd(unit, acc, y))
    /\ acc' = Kept(ret'.out)
    /\ UNCHANGED <<unit, puVars>>

DoSubstract(y) ==
    /\ ret' = Call("substract", acc, y, FixedSubstract(unit, acc, y))
    /\ acc' = Kept(ret'.out)
    /\ UNCHANGED <<unit, puVars>>

NextFixed ==
    \E m \in Mantissas(unit.format, acc.m.ivl) :
        \/ DoAdd(Repr(m, unit.format))
        \/ DoSubstract(Repr(m, unit.format))

SpecFixed == InitFixed /\ [][NextFixed]_vars

(***************************************************************************)
(* Single calls: a unit is constructed, the operands are chosen, and the   *)
(* call is made.                                                           *)
(***************************************************************************)
FixedFormats ==
    { Fmt(lsb + FixedWordlength - SignBit(signed), lsb, signed) :
        lsb \in {-FixedFracBits, 1}, signed \in BOOLEAN }

FixedUnits ==
    { FixedUnit(f, R, policy, ao, au) :
        f \in FixedFormats, R \in RoundingPolicies,
        policy \in OverflowPolicies,
        ao \in {AllOps, {}}, au \in {AllOps, {}} }

\* Pairs of operands of format f, both plain integers or both Intervals
OperandPairs(f) ==
    { <<Repr(mx, f), Repr(my, f)>> : mx \in Scalars(f), my \in Scalars(f) } \cup
    { <<Repr(mx, f), Repr(my, f)>> : mx \in Intervals(f), my \in Intervals(f) }

InitFixedMultiply ==
    /\ NoScopes
    /\ unit \in FixedUnits
    /\ acc = IdleAcc
    /\ ret \in { Pending("multiply", p[1], p[2]) : p \in OperandPairs(unit.format) }

CallFixedMultiply ==
    /\ IsPending("multiply")
    /\ ret' = [ret EXCEPT !.out = FixedMultiply(unit, ret.x, ret.y)]
    /\ UNCHANGED <<unit, acc, puVars>>

NextFixedMultiply == CallFixedMultiply

SpecFixedMultiply == InitFixedMultiply /\ [][NextFixedMultiply]_vars

\* The exact sum or difference of the operands of the last call: integer
\* arithmetic, bound-wise for Intervals (lower - upper, upper - lower).
ExactLo == IF ret.op = "add" THEN ret.x.m.lo + ret.y.m.lo
                             ELSE ret.x.m.lo - ret.y.m.hi
ExactHi == IF ret.op = "add" THEN ret.x.m.hi + ret.y.m.hi
                             ELSE ret.x.m.hi - ret.y.m.lo
ExactInRange(r) == r.lo <= ExactLo /\ ExactHi <= r.hi

Clamp(v, r) == IF v < r.lo THEN r.lo ELSE IF v > r.hi THEN r.hi ELSE v

Q44 == Fmt(3, -4, TRUE)
Q44Unit == FixedUnit(Q44, "nearest", "wraparound", AllOps, {})

\* C2: on a fixed-format unit add and substract compute the exact sum or
\* difference of the operand mantissas; in range it is returned unchanged;
\* out of range the call raises OverflowError(value, value range) with the
\* un-corrected value when the operation does not allow overflow, and returns
\* the overflow policy's correction otherwise (wraparound: congruent modulo
\* the range size, an Interval becoming the full range; saturate: clamped).
\* Every returned Representation is in the unit's format and in range.
C2_AddSubstract ==
    LET r == MantissaInterval(unit.format)
        size == r.hi + 1 - r.lo
        out == ret.out
    IN  /\ acc.format = unit.format
        /\ r.lo <= acc.m.lo /\ acc.m.lo <= acc.m.hi /\ acc.m.hi <= r.hi
        /\ ret.op \in {"add", "substract"} =>
             /\ ExactInRange(r) =>
                  /\ out.status = "ok"
                  /\ out.format = unit.format
                  /\ out.m.lo = ExactLo /\ out.m.hi = ExactHi
             /\ ~ExactInRange(r) /\ ret.op \notin unit.allows_overflow =>
                  /\ out.status = "errors.OverflowError"
                  /\ out.err_given
                  /\ out.err_value.lo = ExactLo /\ out.err_value.hi = ExactHi
                  /\ out.err_exp = unit.format.lsb
                  /\ out.err_limits = r /\ out.err_lim_exp = unit.format.lsb
                  /\ acc = ret.x
             /\ ~ExactInRange(r) /\ ret.op \in unit.allows_overflow =>
                  /\ out.status = "ok"
                  /\ out.format = unit.format
                  /\ r.lo <= out.m.lo /\ out.m.hi <= r.hi
                  /\ unit.overflow = "wraparound" /\ ~ret.x.m.ivl =>
                       (out.m.lo - ExactLo) % size = 0
                  /\ unit.overflow = "wraparound" /\ ret.x.m.ivl =>
                       out.m.lo = r.lo /\ out.m.hi = r.hi
                  /\ unit.overflow = "saturate" =>
                       /\ out.m.lo = Clamp(ExactLo, r)
                       /\ out.m.hi = Clamp(ExactHi, r)
             /\ out.status = "ok" => acc = Repr(out.m, out.format)
        /\ FixedAdd(Q44Unit, Repr(Scalar(64), Q44), Repr(Scalar(64), Q44)).m
             = Scalar(-128)
        /\ FixedAdd(Q44Unit, Repr(Ivl(-16, 48), Q44), Repr(Ivl(48, 80), Q44)).m
             = Ivl(-128, 127)

\* C2 witness: a sum of plain integers above the range was wrapped around.
C2_Witness ==
    /\ ret.op = "add"
    /\ ~ret.x.m.ivl
    /\ unit.overflow = "wraparound"
    /\ ret.x.m.lo + ret.y.m.lo > MantissaInterval(unit.format).hi
    /\ ret.out.status = "ok"
    /\ ret.out.m.lo = ret.x.m.lo + ret.y.m.lo - Pow2(Wordlength(unit.format))

\* The policy R applied to the real p / 2^k, or to p * 2^(-k) when k < 0
Rounded(R, p, k) == IF k >= 0 THEN Apply(R, p, k) ELSE p * Pow2(-k)

\* C3 (as claimed): multiply returns, in the unit's format, the mantissa
\* R(x.mantissa * y.mantissa / 2^(lsb_result - lsb_x - lsb_y)) for each of the
\* four rounding policies R; UnderflowError when that mantissa is 0 for a
\* non-zero product and underflow is not allowed, otherwise OverflowError when
\* it is out of range and overflow is not allowed, otherwise the overflow
\* policy's correction.
C3_MultiplyRounds ==
    ret.op = "multiply" /\ ret.out.status # "pending" /\ ~ret.x.m.ivl =>
        LET product == ret.x.m.lo * ret.y.m.lo
            q == Rounded(unit.rounding, product, -unit.format.lsb)
            r == MantissaInterval(unit.format)
            out == ret.out
        IN  IF q = 0 /\ product # 0 /\ "multiply" \notin unit.allows_underflow
            THEN out.status = "errors.UnderflowError"
            ELSE IF (q < r.lo \/ q > r.hi)
                    /\ "multiply" \notin unit.allows_overflow
            THEN out.status = "errors.OverflowError"
            ELSE /\ out.status = "ok"
                 /\ out.format = unit.format
                 /\ out.m = overflow_behavior(unit.overflow, Scalar(q), r).m


(***************************************************************************)
(* Single calls on a multi-format unit.                                    *)
(***************************************************************************)
\* Formats a unit of wordlength w accepts, with LSBs down to -MultiFracBits
OperandFormats(w) ==
    { Fmt(lsb + wl - SignBit(signed), lsb, signed) :
        lsb \in -MultiFracBits..0, wl \in 1..w, signed \in BOOLEAN }

\* Plain-integer Representations a unit of wordlength w accepts
Operands(w, signed) ==
    UNION { { Repr(m, f) : m \in Scalars(f) } :
              f \in { g \in OperandFormats(w) : g.signed = signed } }

MultiUnits ==
    { MultiUnit(MultiWordlength, R, policy, ao, au) :
        R \in RoundingPolicies, policy \in OverflowPolicies,
        ao \in {AllOps, {}}, au \in {AllOps, {}} }

\* Units that differ in their rounding method only (default permissions and
\* overflow policy)
MultiUnitsByRounding ==
    { MultiUnit(MultiWordlength, R, "wraparound", AllOps, AllOps) :
        R \in RoundingPolicies }

PendingPairs(op, w) ==
    { Pending(op, x, y) : x \in Operands(w, TRUE), y \in Operands(w, TRUE) } \cup
    { Pending(op, x, y) : x \in Operands(w, FALSE), y \in Operands(w, FALSE) }

InitMultiAdd ==
    /\ NoScopes
    /\ unit \in MultiUnits
    /\ acc = IdleAcc
    /\ ret \in PendingPairs("add", unit.wordlength)

CallMultiAdd ==
    /\ IsPending("add")
    /\ ret' = [ret EXCEPT !.out = MultiAdd(unit, ret.x, ret.y)]
    /\ UNCHANGED <<unit, acc, puVars>>

NextMultiAdd == CallMultiAdd

SpecMultiAdd == InitMultiAdd /\ [][NextMultiAdd]_vars

InitMultiSubstract ==
    /\ NoScopes
    /\ unit \in { u \in MultiUnits : u.overflow = "wraparound" }
    /\ acc = IdleAcc
    /\ ret \in PendingPairs("substract", unit.wordlength)

CallMultiSubstract ==
    /\ IsPending("substract")
    /\ ret' = [ret EXCEPT !.out = MultiSubstract(unit, ret.x, ret.y)]
    /\ UNCHANGED <<unit, acc, puVars>>

NextMultiSubstract == CallMultiSubstract

SpecMultiSubstract == InitMultiSubstract /\ [][NextMultiSubstract]_vars

InitMultiMultiply ==
    /\ NoScopes
    /\ unit \in MultiUnitsByRounding
    /\ acc = IdleAcc
    /\ ret \in PendingPairs("multiply", unit.wordlength)

CallMultiMultiply ==
    /\ IsPending("multiply")
    /\ ret' = [ret EXCEPT !.out = MultiMultiply(unit, ret.x, ret.y)]
    /\ UNCHANGED <<unit, acc, puVars>>

NextMultiMultiply == CallMultiMultiply

SpecMultiMultiply == InitMultiMultiply /\ [][NextMultiMultiply]_vars

\* The common working format as the claim states it: msb = max, lsb = min,
\* the lsb raised so that the wordlength does not exceed w.
CommonFormat(w, fx, fy) ==
    LET msb == IF fx.msb >= fy.msb THEN fx.msb ELSE fy.msb
        lsb == IF fx.lsb <= fy.lsb THEN fx.lsb ELSE fy.lsb
        s == IF fx.signed THEN 1 ELSE 0
    IN  [msb |-> msb,
         lsb |-> IF msb - lsb + s > w THEN msb - w + s ELSE lsb,
         signed |-> fx.signed]

\* |a * 2^ea - b * 2^eb| < 2^ea
WithinOneLsb(a, ea, b, eb) ==
    LET e == IF ea <= eb THEN ea ELSE eb
        d == a * Pow2(ea - e) - b * Pow2(eb - e)
    IN  -Pow2(ea - e) < d /\ d < Pow2(ea - e)

\* C5 (as claimed): with overflow disallowed for add, a multi-format add
\* aligns the operands to the common format and, unless the alignment is
\* refused for underflow, returns a result no wider than the unit: the
\* aligned sum in the common format when it fits, and otherwise its
\* re-quantization in the format with one more MSB bit and
\* lsb = msb - wordlength + sign bit, less than one LSB of the result format
\* away from the exact aligned sum, without any internal assertion failing.
C5_AddGrowsFormat ==
    ret.op = "add" /\ ret.out.status # "pending"
      /\ "add" \notin unit.allows_overflow =>
        LET fz == CommonFormat(unit.wordlength, ret.x.format, ret.y.format)
            ax == align_operand_mantissa(unit, ret.x, fz, TRUE)
            ay == align_operand_mantissa(unit, ret.y, fz, TRUE)
            sum == ax.m.lo + ay.m.lo
            r == MantissaInterval(fz)
            s == IF fz.signed THEN 1 ELSE 0
            out == ret.out
        IN  \/ /\ out.status = "errors.UnderflowError"
               /\ "add" \notin unit.allows_underflow
            \/ /\ out.status = "ok"
               /\ ax.status = "ok" /\ ay.status = "ok"
               /\ Wordlength(out.format) <= unit.wordlength
               /\ ReprValid(out.m, out.format)
               /\ r.lo <= sum /\ sum <= r.hi =>
                    out.format = fz /\ out.m = Scalar(sum)
               /\ sum < r.lo \/ sum > r.hi =>
                    out.format = [msb |-> fz.msb + 1,
                                  lsb |-> fz.msb + 1 - unit.wordlength + s,
                                  signed |-> fz.signed]
               /\ WithinOneLsb(out.m.lo, out.format.lsb, sum, fz.lsb)

\* C6 (as claimed): a multi-format substract whose operands align to the
\* common format returns the integer difference of the aligned mantissas in
\* that format when the difference is in range; in particular x.mantissa -
\* y.mantissa in the operands' format when both have the same format.
C6_SubstractDifference ==
    ret.op = "substract" /\ ret.out.status # "pending" =>
        LET fz == CommonFormat(unit.wordlength, ret.x.format, ret.y.format)
            ax == align_operand_mantissa(unit, ret.x, fz, TRUE)
            ay == align_operand_mantissa(unit, ret.y, fz, TRUE)
            r == MantissaInterval(fz)
        IN  /\ ax.status = "ok" /\ ay.status = "ok"
               /\ (ax.m.lo # 0 \/ ret.x.m.lo = 0)
               /\ (ay.m.lo # 0 \/ ret.y.m.lo = 0)
               /\ r.lo <= ax.m.lo - ay.m.lo /\ ax.m.lo - ay.m.lo <= r.hi =>
                    ret.out = Returned(Scalar(ax.m.lo - ay.m.lo), fz)
            /\ ret.x.format = ret.y.format
               /\ r.lo <= ret.x.m.lo - ret.y.m.lo
               /\ ret.x.m.lo - ret.y.m.lo <= r.hi =>
                    ret.out = Returned(Scalar(ret.x.m.lo - ret.y.m.lo),
                                       ret.x.format)

\* C7 (as claimed): for operands a multi-format unit accepts, the integer
\* product of the mantissas lies within the mantissa interval of the product
\* format (msb_x + msb_y, lsb_x + lsb_y), the call never fails the range
\* check of Representation, and when the product format is no wider than the
\* unit the result is exactly that mantissa in that format.
C7_MultiplyExact ==
    ret.op = "multiply" /\ ret.out.status # "pending"
      /\ MultiAccepts(unit, ret.x, ret.y) =>
        LET fz == Fmt(ret.x.format.msb + ret.y.format.msb,
                      ret.x.format.lsb + ret.y.format.lsb, ret.x.format.signed)
            product == ret.x.m.lo * ret.y.m.lo
            r == MantissaInterval(fz)
        IN  /\ r.lo <= product /\ product <= r.hi
            /\ ret.out.status # "ValueError"
            /\ Wordlength(fz) <= unit.wordlength =>
                   ret.out = Returned(Scalar(product), fz)

(***************************************************************************)
(* Single calls of represent on a real value, on either kind of unit.      *)
(***************************************************************************)
InitRepresent ==
    /\ NoScopes
    /\ unit \in FixedUnits \cup MultiUnits
    /\ acc = IdleAcc
    /\ ret \in { PendingOnValue("represent", v, f, "none") :
                   f \in (IF unit.kind = "fixed" THEN {unit.format}
                          ELSE OperandFormats(unit.wordlength)),
                   v \in Reals(Fmt(MultiWordlength - 1, 0, TRUE)) }

CallFixedRepresent ==
    /\ IsPending("represent")
    /\ unit.kind = "fixed"
    /\ ret' = [ret EXCEPT !.out = FixedRepresent(unit, ret.v)]
    /\ UNCHANGED <<unit, acc, puVars>>

CallMultiRepresent ==
    /\ IsPending("represent")
    /\ unit.kind = "multi"
    /\ ret' = [ret EXCEPT !.out = MultiRepresent(unit, ret.v, ret.f)]
    /\ UNCHANGED <<unit, acc, puVars>>

NextRepresent == CallFixedRepresent \/ CallMultiRepresent

SpecRepresent == InitRepresent /\ [][NextRepresent]_vars

\* The value overflows or underflows in format f under rounding R
ViolatesRange(f, v, R) ==
    LET q == RepresentReal(f, v, R)
    IN  q.status = "ok" /\ (q.underflow \/ q.overflow)

\* C4 (as claimed): every range violation an ALU reports, of either variant,
\* is raised as errors.OverflowError carrying (value, limits) or as
\* errors.UnderflowError carrying (value, epsilon): a represent call that
\* raises for a value out of range, or rounded to zero, raises one of the
\* two with its fields given.
C4_StructuredErrors ==
    ret.op = "represent" /\ ret.out.status \notin {"pending", "ok", "ValueError"}
      /\ ViolatesRange(ret.f, ret.v,
                       IF unit.kind = "fixed" THEN "nearest" ELSE unit.rounding) =>
        /\ ret.out.status \in {"errors.OverflowError", "errors.UnderflowError"}
        /\ ret.out.err_given

(***************************************************************************)
(* Single calls of Format.represent and Format.best on a real value.  For  *)
(* Format.best the wordlength and the signedness asked for are those of    *)
(* ret.f.                                                                  *)
(***************************************************************************)
\* The shapes Format.best is asked for: every wordlength up to
\* FixedWordlength, signed or not
BestShapes ==
    { Fmt(w - SignBit(signed), 0, signed) :
        w \in 1..FixedWordlength, signed \in BOOLEAN }

\* Real values for Format.best: ValueBits fractional bits, beyond the range
\* of the widest shape on either side
BestValues ==
    { Real(num, -ValueBits) :
        num \in -Pow2(FixedWordlength + ValueBits)..Pow2(FixedWordlength + ValueBits) }

\* What Format.represent returns, or the exception it raises
FormatRepresent(f, v, R) == RepresentReal(f, v, R)

InitFormat ==
    /\ NoScopes
    /\ unit = IdleUnit
    /\ acc = IdleAcc
    /\ ret \in UNION { { PendingOnValue("Format.represent", v, f, R) :
                           v \in Reals(f), R \in RoundingPolicies } :
                         f \in FixedFormats }
          \cup { PendingOnValue("Format.best", v, f, R) :
                   f \in BestShapes, v \in BestValues, R \in RoundingPolicies }

CallFormatRepresent ==
    /\ IsPending("Format.represent")
    /\ ret' = [ret EXCEPT !.out = FormatRepresent(ret.f, ret.v, ret.R)]
    /\ UNCHANGED <<unit, acc, puVars>>

CallFormatBest ==
    /\ IsPending("Format.best")
    /\ ret' = [ret EXCEPT !.out = FormatBest(ret.v, Wordlength(ret.f), ret.R,
                                             ret.f.signed)]
    /\ UNCHANGED <<unit, acc, puVars>>

NextFormat == CallFormatRepresent \/ CallFormatBest

SpecFormat == InitFormat /\ [][NextFormat]_vars

\* C8 (as claimed): for every finite value, wordlength, signedness and
\* rounding policy Format.best returns a mantissa and a format of the
\* wordlength asked for, with the mantissa inside the format's mantissa
\* interval, also where the first MSB estimate has to be adjusted (a negative
\* value is refused for an unsigned format).
C8_BestFits ==
    ret.op = "Format.best" /\ ret.out.status # "pending" =>
        IF ~ret.f.signed /\ ret.v.num < 0
        THEN ret.out.status = "ValueError"
        ELSE /\ ret.out.status = "ok"
             /\ Wordlength(ret.out.format) = Wordlength(ret.f)
             /\ ret.out.format.signed = ret.f.signed
             /\ ReprValid(Scalar(ret.out.m), ret.out.format)

\* m is the value num * 2^exp rounded by R to the grid of 2^lsb, stated by
\* the inequalities that define each rounding
IsRounding(R, m, num, exp, lsb) ==
    LET e == IF exp <= lsb THEN exp ELSE lsb
        v == num * Pow2(exp - e)
        g == Pow2(lsb - e)
        down == m * g <= v /\ v < (m + 1) * g
        up == (m - 1) * g < v /\ v <= m * g
    IN  CASE R = "floor" -> down
          [] R = "ceil" -> up
          [] R = "truncate" -> IF v >= 0 THEN down ELSE up
          [] R = "nearest" -> 2 * (m * g - v) <= g /\ 2 * (v - m * g) <= g

uQ8 == Fmt(1, -8, FALSE)

\* C9: Format.represent(value, rounding) returns underflow = true iff the
\* value is non-zero and its quantized mantissa is 0, and overflow = true iff
\* the quantized mantissa lies outside the format's mantissa interval; the
\* mantissa returned is the rounded value itself, neither wrapped nor
\* saturated; an unsigned format rejects every negative value with
\* ValueError (uQ(8).represent(-1) raises).
C9_RepresentFlags ==
    /\ \A R \in RoundingPolicies :
          FormatRepresent(uQ8, Real(-1, 0), R).status = "ValueError"
    /\ ret.op = "Format.represent" /\ ret.out.status # "pending" =>
          IF ~ret.f.signed /\ ret.v.num < 0
          THEN ret.out.status = "ValueError"
          ELSE /\ ret.out.status = "ok"
               /\ ~ret.out.m.ivl
               /\ IsRounding(ret.R, ret.out.m.lo, ret.v.num, ret.v.exp,
                             ret.f.lsb)
               /\ ret.out.underflow <=> (ret.v.num # 0 /\ ret.out.m.lo = 0)
               /\ ret.out.overflow <=>
                    ~(MantissaInterval(ret.f).lo <= ret.out.m.lo
                      /\ ret.out.m.lo <= MantissaInterval(ret.f).hi)

\* A value above the range of a signed format was represented: the overflow
\* is flagged and the mantissa is left beyond the upper limit.
C9_Witness ==
    /\ ret.op = "Format.represent" /\ ret.out.status = "ok"
    /\ ret.f.signed
    /\ ret.out.overflow /\ ~ret.out.underflow
    /\ ret.out.m.lo > MantissaInterval(ret.f).hi

Q7 == Fmt(0, -7, TRUE)

\* C10: for every format, each of the four rounding policies and every real
\* v inside the format's value interval, Format.represent returns a mantissa
\* m with the overflow flag false and |m * 2^lsb - v| <= value_epsilon = 2^lsb
\* (Q1.7 with nearest: 0.3, which lies between 307/1024 and 308/1024, gives
\* 38, and -0.3 gives -38).
C10_RepresentError ==
    /\ \A num \in {307, 308} :
          /\ FormatRepresent(Q7, Real(num, -10), "nearest")
               = Represented("ok", Scalar(38), FALSE, FALSE)
          /\ FormatRepresent(Q7, Real(-num, -10), "nearest")
               = Represented("ok", Scalar(-38), FALSE, FALSE)
    /\ ret.op = "Format.represent" /\ ret.out.status # "pending"
         /\ CanRepresent(ret.f, ret.v) =>
          /\ ret.out.status = "ok"
          /\ ~ret.out.overflow
          /\ LET e == IF ret.v.exp <= ret.f.lsb THEN ret.v.exp ELSE ret.f.lsb
                 d == ret.out.m.lo * Pow2(ret.f.lsb - e)
                        - ret.v.num * Pow2(ret.v.exp - e)
             IN  -Pow2(ret.f.lsb - e) <= d /\ d <= Pow2(ret.f.lsb - e)

\* A negative value off the grid, inside the value interval, was represented
\* by truncation.
C10_Witness ==
    /\ ret.op = "Format.represent" /\ ret.out.status = "ok"
    /\ ret.R = "truncate"
    /\ CanRepresent(ret.f, ret.v)
    /\ ret.v.num < 0
    /\ ret.v.exp < ret.f.lsb /\ ret.v.num % Pow2(ret.f.lsb - ret.v.exp) # 0

(***************************************************************************)
(* Rounding policies on their own: single calls of R.shift on an integer   *)
(* held at LSB exponent input_lsb, re-quantized to output_lsb, and of      *)
(* R.error_bounds.  Bounds are real numbers num * 2^exp.                   *)
(***************************************************************************)
MaxShift == 3

\* a <= b for reals num * 2^exp
RealLe(a, b) ==
    LET e == IF a.exp <= b.exp THEN a.exp ELSE b.exp
    IN  a.num * Pow2(a.exp - e) <= b.num * Pow2(b.exp - e)

RealEq(a, b) == RealLe(a, b) /\ RealLe(b, a)

\* a + b for reals num * 2^exp
RealAdd(a, b) ==
    LET e == IF a.exp <= b.exp THEN a.exp ELSE b.exp
    IN  Real(a.num * Pow2(a.exp - e) + b.num * Pow2(b.exp - e), e)

\* Interval(lower_bound, upper_bound) of reals: __post_init__ raises
\* ValueError when the upper bound is lower than the lower bound.
RealInterval(lo, hi) ==
    IF RealLe(lo, hi) THEN [status |-> "ok", lo |-> lo, hi |-> hi]
    ELSE [status |-> "ValueError", lo |-> Real(0, 0), hi |-> Real(0, 0)]

\* Interval.__add__ of two intervals of reals
RealIntervalAdd(a, b) ==
    IF a.status # "ok" THEN a
    ELSE IF b.status # "ok" THEN b
    ELSE RealInterval(RealAdd(a.lo, b.lo), RealAdd(a.hi, b.hi))

\* nearest_integer.error_bounds(output_lsb, input_lsb)
NearestErrorBounds(o, i, given) ==
    IF ~given THEN RealInterval(Real(-1, o - 1), Real(1, o - 1))
    ELSE RealInterval(RealAdd(Real(-1, o - 1), Real(1, i)), Real(1, o - 1))

\* floor.error_bounds(output_lsb, input_lsb)
FloorErrorBounds(o, i, given) ==
    IF ~given THEN RealInterval(Real(-1, o), Real(0, 0))
    ELSE RealInterval(RealAdd(Real(-1, o), Real(1, i)), Real(0, 0))

\* ceil.error_bounds(output_lsb, input_lsb)
CeilErrorBounds(o, i, given) ==
    IF ~given THEN RealInterval(Real(0, 0), Real(1, o))
    ELSE RealInterval(Real(0, 0), RealAdd(Real(1, o), Real(-1, i)))

\* truncate.error_bounds(output_lsb, input_lsb): the correction term is
\* built as interval(2^i, -(2^i)) before it is added.
TruncateErrorBounds(o, i, given) ==
    LET bounds == RealInterval(Real(-1, o), Real(1, o))
    IN  IF given
        THEN RealIntervalAdd(bounds, RealInterval(Real(1, i), Real(-1, i)))
        ELSE bounds

error_bounds(R, o, i, given) ==
    CASE R = "nearest" -> NearestErrorBounds(o, i, given)
      [] R = "floor" -> FloorErrorBounds(o, i, given)
      [] R = "ceil" -> CeilErrorBounds(o, i, given)
      [] R = "truncate" -> TruncateErrorBounds(o, i, given)

\* A call of R.shift(value, input_lsb - output_lsb) or of
\* R.error_bounds(output_lsb[, input_lsb]), and its outcome
RoundingCall(op, R, value, i, o, given, out) ==
    [op |-> op, R |-> R, value |-> value, input_lsb |-> i, output_lsb |-> o,
     given |-> given, out |-> out]

PendingRounding == [status |-> "pending"]

InitRounding ==
    /\ NoScopes
    /\ unit = IdleUnit
    /\ acc = IdleAcc
    /\ ret \in { RoundingCall("shift", R, v, i, i + k, TRUE, PendingRounding) :
                   R \in RoundingPolicies,
                   v \in -Pow2(FixedWordlength)..Pow2(FixedWordlength),
                   i \in -FixedFracBits..0, k \in 1..MaxShift }
          \cup { RoundingCall("error_bounds", R, 0, i, i + k, given,
                              PendingRounding) :
                   R \in RoundingPolicies, i \in -FixedFracBits..0,
                   k \in 1..MaxShift, given \in BOOLEAN }

CallShift ==
    /\ IsPending("shift")
    /\ ret' = [ret EXCEPT !.out = ShiftScalar(ret.R, ret.value,
                                              ret.input_lsb - ret.output_lsb)]
    /\ UNCHANGED <<unit, acc, puVars>>

CallErrorBounds ==
    /\ IsPending("error_bounds")
    /\ ret' = [ret EXCEPT !.out = error_bounds(ret.R, ret.output_lsb,
                                               ret.input_lsb, ret.given)]
    /\ UNCHANGED <<unit, acc, puVars>>

NextRounding == CallShift \/ CallErrorBounds

SpecRounding == InitRounding /\ [][NextRounding]_vars

\* The error R.shift(v, i - o) * 2^o - v * 2^i of a finished shift call
ShiftError ==
    Real(ret.out.m.lo * Pow2(ret.output_lsb - ret.input_lsb) - ret.value,
         ret.input_lsb)

InBounds(e, b) == b.status = "ok" /\ RealLe(b.lo, e) /\ RealLe(e, b.hi)

\* C11: for nearest, floor and ceil, every integer mantissa v at LSB exponent
\* i and every coarser output exponent o > i, the error
\* R.shift(v, i - o) * 2^o - v * 2^i lies inside R.error_bounds(o, i) and
\* inside R.error_bounds(o); the bounds are nearest
\* [-2^(o-1) + 2^i, 2^(o-1)], floor [-2^o + 2^i, 0], ceil [0, 2^o - 2^i],
\* and [-2^(o-1), 2^(o-1)], [-2^o, 0], [0, 2^o] when i is not given.
C11_ErrorBoundsSound ==
    /\ ret.op = "shift" /\ ret.out.status # "pending"
         /\ ret.R \in {"nearest", "floor", "ceil"} =>
          /\ ret.out.status = "ok"
          /\ InBounds(ShiftError,
                      error_bounds(ret.R, ret.output_lsb, ret.input_lsb, TRUE))
          /\ InBounds(ShiftError,
                      error_bounds(ret.R, ret.output_lsb, ret.input_lsb, FALSE))
    /\ ret.op = "error_bounds" /\ ret.out.status # "pending"
         /\ ret.R \in {"nearest", "floor", "ceil"} =>
          LET o == ret.output_lsb
              i == ret.input_lsb
              k == o - i
              \* the closed forms, in units of 2^(i - 1)
              lo == CASE ret.R = "nearest" ->
                           IF ret.given THEN -Pow2(k) + 2 ELSE -Pow2(k)
                      [] ret.R = "floor" ->
                           IF ret.given THEN -Pow2(k + 1) + 2 ELSE -Pow2(k + 1)
                      [] ret.R = "ceil" -> 0
              hi == CASE ret.R = "nearest" -> Pow2(k)
                      [] ret.R = "floor" -> 0
                      [] ret.R = "ceil" ->
                           IF ret.given THEN Pow2(k + 1) - 2 ELSE Pow2(k + 1)
          IN  /\ ret.out.status = "ok"
              /\ RealEq(ret.out.lo, Real(lo, i - 1))
              /\ RealEq(ret.out.hi, Real(hi, i - 1))

\* A negative mantissa exactly half way between two output steps was
\* shifted by nearest: the error is the upper bound 2^(o-1).
C11_Witness ==
    /\ ret.op = "shift" /\ ret.out.status = "ok"
    /\ ret.R = "nearest" /\ ret.value < 0
    /\ ret.output_lsb - ret.input_lsb >= 2
    /\ RealEq(ShiftError, Real(1, ret.output_lsb - 1))

\* C12 (as claimed): truncate.error_bounds(o) returns [-2^o, 2^o], and
\* truncate.error_bounds(o, i) with i < o returns
\* [-2^o + 2^i, 2^o - 2^i].
C12_TruncateErrorBounds ==
    ret.op = "error_bounds" /\ ret.out.status # "pending"
      /\ ret.R = "truncate" =>
        /\ ret.out.status = "ok"
        /\ RealEq(ret.out.lo,
                  IF ret.given
                  THEN RealAdd(Real(-1, ret.output_lsb), Real(1, ret.input_lsb))
                  ELSE Real(-1, ret.output_lsb))
        /\ RealEq(ret.out.hi,
                  IF ret.given
                  THEN RealAdd(Real(1, ret.output_lsb), Real(-1, ret.input_lsb))
                  ELSE Real(1, ret.output_lsb))

(***************************************************************************)
(* Error-bounded numbers over plain (not fixed-point) nominal values.      *)
(* Nominal values and error bounds are integer multiples of one common     *)
(* step, so that a sum is a multiple of the step and a product a multiple  *)
(* of the step squared.                                                    *)
(***************************************************************************)
EBMax == 2
EBErr == 1

\* error_bounded.Number(number, error_bounds)
EBNumber(n, lo, hi) == [number |-> n, lo |-> lo, hi |-> hi, plain |-> FALSE]

\* an operand that is not an error_bounded.Number; the operators wrap it as
\* Number(other), whose error bounds default to Interval(0)
EBPlain(n) == [number |-> n, lo |-> 0, hi |-> 0, plain |-> TRUE]

EBResult(n, lo, hi) == [status |-> "ok", number |-> n, lo |-> lo, hi |-> hi]

\* Number.__add__ (and __radd__, which is the same function)
EBAdd(x, y) == EBResult(x.number + y.number, x.lo + y.lo, x.hi + y.hi)

\* A substraction that widens the bounds as Interval.__sub__ does
EBSubWidening(x, y) == EBResult(x.number - y.number, x.lo - y.hi, x.hi - y.lo)

\* Number.__sub__
EBSub(x, y) == EBResult(x.number - y.number, x.lo + y.lo, x.hi + y.hi)

\* Number.__rsub__(self, other): Number(other) - self
EBRSub(self, other) == EBSub(EBPlain(other.number), self)

\* A product whose bounds leave the cross term ex * ey out
EBMulLinearized(x, y) ==
    LET a == x.number * y.lo
        b == x.number * y.hi
        c == y.number * x.lo
        d == y.number * x.hi
    IN  EBResult(x.number * y.number, Min2(a, b) + Min2(c, d),
                 Max2(a, b) + Max2(c, d))

\* Number.__mul__: ((x + Ex) * (y + Ey)).difference(x * y), the interval
\* product taking the minimum and maximum of the four corner products
EBMul(x, y) ==
    LET a == (x.number + x.lo) * (y.number + y.lo)
        b == (x.number + x.lo) * (y.number + y.hi)
        c == (x.number + x.hi) * (y.number + y.lo)
        d == (x.number + x.hi) * (y.number + y.hi)
    IN  EBResult(x.number * y.number,
                 Min4(a, b, c, d) - x.number * y.number,
                 Max4(a, b, c, d) - x.number * y.number)

EBNumbers ==
    { EBNumber(n, lo, hi) : n \in -EBMax..EBMax,
                            lo \in -EBErr..EBErr, hi \in -EBErr..EBErr } \cap
    { EBNumber(n, lo, lo + w) : n \in -EBMax..EBMax,
                                lo \in -EBErr..EBErr, w \in 0..(2 * EBErr) }

EBPlains == { EBPlain(n) : n \in -EBMax..EBMax }

\* A call self <op> other, or other <op> self through the reflected method
\* when other is a plain operand on the left
EBCall(op, self, other, reflected, out) ==
    [op |-> op, self |-> self, other |-> other, reflected |-> reflected,
     out |-> out]

PendingEB == [status |-> "pending"]

InitErrorBounded ==
    /\ NoScopes
    /\ unit = IdleUnit
    /\ acc = IdleAcc
    /\ ret \in { EBCall(op, x, y, FALSE, PendingEB) :
                   op \in {"eb_add", "eb_sub", "eb_mul"},
                   x \in EBNumbers, y \in EBNumbers \cup EBPlains }
          \cup { EBCall(op, x, y, TRUE, PendingEB) :
                   op \in {"eb_add", "eb_sub", "eb_mul"},
                   x \in EBNumbers, y \in EBPlains }

CallEBAdd ==
    /\ IsPending("eb_add")
    /\ ret' = [ret EXCEPT !.out = EBAdd(ret.self, ret.other)]
    /\ UNCHANGED <<unit, acc, puVars>>

CallEBSub ==
    /\ IsPending("eb_sub")
    /\ ret' = [ret EXCEPT !.out = IF ret.reflected
                                  THEN EBRSub(ret.self, ret.other)
                                  ELSE EBSub(ret.self, ret.other)]
    /\ UNCHANGED <<unit, acc, puVars>>

CallEBMul ==
    /\ IsPending("eb_mul")
    /\ ret' = [ret EXCEPT !.out = EBMul(ret.self, ret.other)]
    /\ UNCHANGED <<unit, acc, puVars>>

NextErrorBounded == CallEBAdd \/ CallEBSub \/ CallEBMul

SpecErrorBounded == InitErrorBounded /\ [][NextErrorBounded]_vars

\* C13: error-bounded + and - return the nominal result of the underlying
\* values together with error bounds equal to the bound-wise sum of the two
\* operands' error intervals, a plain operand on either side contributing
\* [0, 0]; in tenths, (10,[-1,3]) + (10,[-3,2]) = (20,[-4,5]) and
\* (10,[-1,3]) - (10,[-3,2]) = (0,[-4,5]); a + 2, 1 + b, a - 2 and 1 - b
\* keep the error bounds of a resp. b.
C13_AddSubBounds ==
    /\ EBAdd(EBNumber(10, -1, 3), EBNumber(10, -3, 2)) = EBResult(20, -4, 5)
    /\ EBSub(EBNumber(10, -1, 3), EBNumber(10, -3, 2)) = EBResult(0, -4, 5)
    /\ ret.op \in {"eb_add", "eb_sub"} /\ ret.out.status # "pending" =>
          LET left == IF ret.reflected THEN ret.other ELSE ret.self
              right == IF ret.reflected THEN ret.self ELSE ret.other
              el == IF left.plain THEN [lo |-> 0, hi |-> 0] ELSE left
              er == IF right.plain THEN [lo |-> 0, hi |-> 0] ELSE right
          IN  /\ ret.out.status = "ok"
              /\ ret.out.number = IF ret.op = "eb_add"
                                  THEN left.number + right.number
                                  ELSE left.number - right.number
              /\ ret.out.lo = el.lo + er.lo
              /\ ret.out.hi = el.hi + er.hi
              /\ ret.other.plain =>
                   ret.out.lo = ret.self.lo /\ ret.out.hi = ret.self.hi

\* 1 - b was evaluated for a b with asymmetric error bounds.
C13_Witness ==
    /\ ret.op = "eb_sub" /\ ret.out.status = "ok"
    /\ ret.reflected /\ ret.other.number = 1
    /\ ret.self.lo # -ret.self.hi
    /\ ret.out.lo = ret.self.lo /\ ret.out.hi = ret.self.hi

\* C14: for scalar nominal values x, y with error intervals Ex, Ey the error
\* bounds of the error-bounded product are exactly the range of
\* (x + ex)(y + ey) - x*y over ex in Ex, ey in Ey: every perturbed product
\* minus the nominal one lies in the bounds and both bounds are attained; in
\* tenths, (5,[-1,2]) * (-40,[-2,3]) has bounds [-94, 52] hundredths.
C14_ProductBounds ==
    /\ EBMul(EBNumber(5, -1, 2), EBNumber(-40, -2, 3)) = EBResult(-200, -94, 52)
    /\ ret.op = "eb_mul" /\ ret.out.status # "pending" =>
          LET x == ret.self.number
              y == ret.other.number
              Ex == ret.self.lo..ret.self.hi
              Ey == ret.other.lo..ret.other.hi
              D(ex, ey) == (x + ex) * (y + ey) - x * y
          IN  /\ ret.out.status = "ok"
              /\ ret.out.number = x * y
              /\ \A ex \in Ex, ey \in Ey :
                    ret.out.lo <= D(ex, ey) /\ D(ex, ey) <= ret.out.hi
              /\ \E ex \in Ex, ey \in Ey : D(ex, ey) = ret.out.lo
              /\ \E ex \in Ex, ey \in Ey : D(ex, ey) = ret.out.hi

\* A product of two error-bounded numbers whose cross term is not zero at
\* the corner that gives the upper bound.
C14_Witness ==
    /\ ret.op = "eb_mul" /\ ret.out.status = "ok"
    /\ ~ret.other.plain
    /\ ret.self.number # 0 /\ ret.other.number # 0
    /\ ret.self.lo < 0 /\ ret.other.lo < 0
    /\ ret.out.hi = (ret.self.number + ret.self.lo)
                      * (ret.other.number + ret.other.lo)
                      - ret.self.number * ret.other.number

(***************************************************************************)
(* Error-bounded numbers over fixed-point nominal values, evaluated inside *)
(* the scope of a fixed-format unit.  The error bounds of an operand are   *)
(* multiples of its format's step 2^lsb.                                   *)
(***************************************************************************)
\* fixed_point.Number.__eq__(self, other) for a plain integer other: decided
\* without the unit when either side is zero or other is outside the
\* format's value interval, else other is represented by the active unit
\* and compared.
FixedEquals(u, x, value) ==
    IF x.m.lo = 0 \/ value = 0
    THEN [status |-> "ok", eq |-> x.m.lo = 0 /\ value = 0]
    ELSE IF ~CanRepresent(x.format, Real(value, 0))
    THEN [status |-> "ok", eq |-> FALSE]
    ELSE LET other == FixedRepresent(u, Real(value, 0))
         IN  IF other.status # "ok"
             THEN [status |-> other.status, eq |-> FALSE]
             ELSE [status |-> "ok", eq |-> x.m.lo - other.m.lo = 0]

\* The first comparison of a chain that raises or holds ends the chain.
FirstEnding(each, ends) ==
    IF ends = {} THEN [status |-> "ok", eq |-> FALSE]
    ELSE each[CHOOSE k \in ends : \A j \in ends : k <= j]

ChainOutcome(each) ==
    FirstEnding(each, { k \in DOMAIN each :
                          each[k].status # "ok" \/ each[k].eq })

\* The chain `a == v1 or b == v2 or ...` over a sequence of <<operand, value>>
\* pairs, evaluated from the left.
AnyEquals(u, tests) ==
    ChainOutcome([k \in 1..Len(tests) |->
                    FixedEquals(u, tests[k][1], tests[k][2])])

EBFixed(x, lo, hi) == [number |-> x, lo |-> lo, hi |-> hi]

EBFixedResult(status, number, lo, hi) ==
    [status |-> status, number |-> number, lo |-> lo, hi |-> hi]

EBFixedRaised(e, number) == EBFixedResult(e, number, Real(0, 0), Real(0, 0))

\* result_error_bounds += rounding.error_bounds(o, i) when asked for
WithTerm(bounds, asked, R, o, i) ==
    IF ~asked THEN bounds
    ELSE RealIntervalAdd(bounds, error_bounds(R, o, i, TRUE))

\* Number.__add__ / Number.__sub__ on fixed-point nominal values: result is
\* the nominal sum or difference the active unit returned, exact the outcome
\* of `x == 0 or y == 0`.
EBFixedAddSubBounds(u, X, Y, result, exact) ==
    LET lsb == X.number.format.lsb
        summed == RealInterval(Real(X.lo + Y.lo, lsb), Real(X.hi + Y.hi, lsb))
        b1 == WithTerm(summed, ~exact.eq /\ result.format.lsb > lsb,
                       u.rounding, result.format.lsb, lsb)
        b2 == WithTerm(b1, ~exact.eq /\ b1.status = "ok"
                             /\ result.format.lsb > Y.number.format.lsb,
                       u.rounding, result.format.lsb, Y.number.format.lsb)
    IN  EBFixedResult(b2.status, result, b2.lo, b2.hi)

EBFixedAddSub(u, X, Y, result) ==
    IF result.status # "ok" THEN EBFixedRaised(result.status, result)
    ELSE EBFixedAddSubBounds(u, X, Y, result,
                             AnyEquals(u, <<<<X.number, 0>>, <<Y.number, 0>>>>))

EBFixedAdd(u, X, Y) == EBFixedAddSub(u, X, Y, FixedAdd(u, X.number, Y.number))
EBFixedSub(u, X, Y) ==
    EBFixedAddSub(u, X, Y, FixedSubstract(u, X.number, Y.number))

\* Number.__mul__ on fixed-point nominal values: result is the nominal
\* product the active unit returned, exact the outcome of
\* `x == -1 or x == 1 or x == 0 or y == -1 or y == 1 or y == 0`.
EBFixedMulBounds(u, X, Y, result, exact, p) ==
    IF result.status # "ok" THEN EBFixedRaised(result.status, result)
    ELSE IF exact.status # "ok" THEN EBFixedRaised(exact.status, result)
    ELSE LET i == X.number.format.lsb + Y.number.format.lsb
             b == WithTerm(RealInterval(Real(p.lo, i), Real(p.hi, i)),
                           ~exact.eq, u.rounding, result.format.lsb, i)
         IN  EBFixedResult(b.status, result, b.lo, b.hi)

EBFixedMul(u, X, Y) ==
    EBFixedMulBounds(u, X, Y, FixedMultiply(u, X.number, Y.number),
                     AnyEquals(u, << <<X.number, -1>>, <<X.number, 1>>,
                                     <<X.number, 0>>, <<Y.number, -1>>,
                                     <<Y.number, 1>>, <<Y.number, 0>> >>),
                     EBMul(EBNumber(X.number.m.lo, X.lo, X.hi),
                           EBNumber(Y.number.m.lo, Y.lo, Y.hi)))

\* Signed formats of FixedWordlength bits with fractional, integer and
\* coarser-than-integer steps
EBFormats == { Fmt(lsb + FixedWordlength - 1, lsb, TRUE) : lsb \in -1..1 }

EBUnits ==
    { FixedUnit(f, R, "wraparound", allow, allow) :
        f \in EBFormats, R \in RoundingPolicies, allow \in {AllOps, {}} }

\* Error-bounded operands of format f: exact, or off by up to EBErr steps
EBFixedOperands(f) ==
    { EBFixed(Repr(m, f), -e, e) : m \in Scalars(f), e \in {0, EBErr} }

InitEBFixed ==
    /\ active = 1
    /\ last_active = [u \in Units |-> None]
    /\ scopes = <<1>>
    /\ raised = FALSE
    /\ unwound = FALSE
    /\ observed = NoObservation
    /\ unit \in EBUnits
    /\ acc = IdleAcc
    /\ ret \in { EBCall(op, X, Y, FALSE, PendingEB) :
                   op \in {"eb_fixed_add", "eb_fixed_sub", "eb_fixed_mul"},
                   X \in EBFixedOperands(unit.format),
                   Y \in EBFixedOperands(unit.format) }

CallEBFixedAdd ==
    /\ IsPending("eb_fixed_add")
    /\ active # None
    /\ ret' = [ret EXCEPT !.out = EBFixedAdd(unit, ret.self, ret.other)]
    /\ UNCHANGED <<unit, acc, puVars>>

CallEBFixedSub ==
    /\ IsPending("eb_fixed_sub")
    /\ active # None
    /\ ret' = [ret EXCEPT !.out = EBFixedSub(unit, ret.self, ret.other)]
    /\ UNCHANGED <<unit, acc, puVars>>

CallEBFixedMul ==
    /\ IsPending("eb_fixed_mul")
    /\ active # None
    /\ ret' = [ret EXCEPT !.out = EBFixedMul(unit, ret.self, ret.other)]
    /\ UNCHANGED <<unit, acc, puVars>>

NextEBFixed == CallEBFixedAdd \/ CallEBFixedSub \/ CallEBFixedMul

SpecEBFixed == InitEBFixed /\ [][NextEBFixed]_vars

\* C15 (as claimed): with fixed-point nominal values, whenever the nominal
\* operation returns, computing the error bounds does not fail, and when the
\* result's LSB is not coarser than the LSB at which the exact result exists
\* (an operand's LSB for + and -, lsb_x + lsb_y for *) the result's error
\* bounds are exactly the propagated operand errors: no rounding-error term
\* is added.
C15_RoundingTermOnlyWhenCoarser ==
    ret.op \in {"eb_fixed_add", "eb_fixed_sub", "eb_fixed_mul"}
      /\ ret.out.status # "pending" /\ ret.out.number.status = "ok" =>
        LET X == ret.self
            Y == ret.other
            lsb == X.number.format.lsb
            mul == ret.op = "eb_fixed_mul"
            i == IF mul THEN lsb + Y.number.format.lsb ELSE lsb
            p == EBMul(EBNumber(X.number.m.lo, X.lo, X.hi),
                       EBNumber(Y.number.m.lo, Y.lo, Y.hi))
            lo == IF mul THEN p.lo ELSE X.lo + Y.lo
            hi == IF mul THEN p.hi ELSE X.hi + Y.hi
        IN  /\ ret.out.status = "ok"
            /\ ret.out.number.format.lsb <= i =>
                  /\ RealEq(ret.out.lo, Real(lo, i))
                  /\ RealEq(ret.out.hi, Real(hi, i))

(***************************************************************************)
(* fixed_point.Number operators.  What a unit computes is modelled         *)
(* elsewhere; here an operator either fails for want of an active unit,    *)
(* hands the operation to the active unit ("delegated"), or returns a      *)
(* value of its own ("ok").                                                *)
(***************************************************************************)
ArithmeticOperators ==
    {"__add__", "__sub__", "__mul__", "__neg__", "__trunc__", "__floor__",
     "__ceil__", "__round__", "__lshift__", "__rshift__"}
EqualityOperators == {"__eq__", "__ne__"}
OrderOperators == {"__lt__", "__le__", "__gt__", "__ge__"}

\* The right operand of an operator: a Representation or a plain integer
OtherRepr(x) == [repr |-> TRUE, m |-> x.m.lo, format |-> x.format, value |-> 0]
OtherPlain(v) == [repr |-> FALSE, m |-> 0, format |-> NoFormat, value |-> v]

OperatorResult(status, value) == [status |-> status, value |-> value]

\* unit = ProcessingUnit.active() followed by the unit's operation
Delegated ==
    IF active = None THEN OperatorResult("RuntimeError", FALSE)
    ELSE OperatorResult("delegated", FALSE)

\* not other: a Representation with mantissa 0, or the integer 0
Falsy(other) == IF other.repr THEN other.m = 0 ELSE other.value = 0

\* Number.__eq__
NumberEq(x, other) ==
    IF x.m.lo = 0 \/ Falsy(other)
    THEN OperatorResult("ok", x.m.lo = 0 /\ Falsy(other))
    ELSE IF ~other.repr /\ ~CanRepresent(x.format, Real(other.value, 0))
    THEN OperatorResult("ok", FALSE)
    ELSE Delegated

\* Number.__lt__ and Number.__le__: a plain operand outside the value
\* interval is answered at once.
NumberLtLe(x, other) ==
    LET vi == MantissaInterval(x.format)
        v == Real(other.value, 0)
    IN  IF ~other.repr /\ ~RealLe(Real(vi.lo, x.format.lsb), v)
        THEN OperatorResult("ok", FALSE)
        ELSE IF ~other.repr /\ ~RealLe(v, Real(vi.hi, x.format.lsb))
        THEN OperatorResult("ok", TRUE)
        ELSE Delegated

\* not (...) of a comparison that returned
Negated(r) == IF r.status = "ok" THEN OperatorResult("ok", ~r.value) ELSE r

NumberOperator(op, x, other) ==
    CASE op = "__eq__" -> NumberEq(x, other)
      [] op = "__ne__" -> Negated(NumberEq(x, other))
      [] op \in {"__lt__", "__le__"} -> NumberLtLe(x, other)
      [] op \in {"__gt__", "__ge__"} -> Negated(NumberLtLe(x, other))
      [] OTHER -> Delegated

OperatorCall(op, x, other, out) ==
    [op |-> op, x |-> x, other |-> other, out |-> out]

PendingOperator == OperatorResult("pending", FALSE)

NumberOperands ==
    UNION { { <<Repr(m, f), OtherRepr(Repr(n, f))>> :
                m \in Scalars(f), n \in Scalars(f) }
            \cup { <<Repr(m, f), OtherPlain(v)>> :
                     m \in Scalars(f),
                     v \in -Pow2(FixedWordlength)..Pow2(FixedWordlength) } :
            f \in FixedFormats }

\* A unit has been entered, or none has
InitNumber ==
    /\ active \in {None, 1}
    /\ last_active = [u \in Units |-> None]
    /\ scopes = IF active = None THEN <<>> ELSE <<active>>
    /\ raised = FALSE
    /\ unwound = FALSE
    /\ observed = NoObservation
    /\ unit = IdleUnit
    /\ acc = IdleAcc
    /\ ret \in { OperatorCall(op, p[1], p[2], PendingOperator) :
                   op \in ArithmeticOperators \cup EqualityOperators
                            \cup OrderOperators,
                   p \in NumberOperands }

Evaluate(ops) ==
    /\ ret.op \in ops /\ ret.out.status = "pending"
    /\ ret' = [ret EXCEPT !.out = NumberOperator(ret.op, ret.x, ret.other)]
    /\ UNCHANGED <<unit, acc, puVars>>

CallArithmetic == Evaluate(ArithmeticOperators)
CallEquality == Evaluate(EqualityOperators)
CallOrder == Evaluate(OrderOperators)

NextNumber == CallArithmetic \/ CallEquality \/ CallOrder

SpecNumber == InitNumber /\ [][NextNumber]_vars

\* C16 (as claimed): every fixed-point Number operator, evaluated for any
\* operands while no unit is active, fails with the 'no active unit'
\* RuntimeError instead of returning a value.
C16_OperatorsNeedActiveUnit ==
    ret.out.status # "pending" /\ active = None =>
        ret.out.status = "RuntimeError"

(***************************************************************************)
(* Scopes in which a unit that is already entered may be entered again.    *)
(***************************************************************************)
\* `with u:` inside a scope of the same instance u
EnterAgain(u) ==
    /\ ~raised
    /\ Len(scopes) < MaxDepth
    /\ InScopes(u)
    /\ last_active' = EnterSaved(u)
    /\ active' = u
    /\ scopes' = Append(scopes, u)
    /\ UNCHANGED <<raised, unwound, observed, aluVars>>

NextPUAgain == NextPU \/ \E u \in Units : EnterAgain(u)

SpecPUAgain == InitPU /\ [][NextPUAgain]_vars

\* C17 (as claimed): also when an entered unit instance is entered again,
\* each exit makes active the unit that was active immediately before the
\* matching enter, i.e. the innermost of the scopes that remain, so that
\* after the outermost exit no unit is active.
C17_ReentrantRestore ==
    [][Len(scopes') < Len(scopes) => active' = Innermost(scopes')]_vars

(***************************************************************************)
(* Two execution contexts sharing the slot.  Context c runs                *)
(* `with U_c: ProcessingUnit.active()` on its own unit U_c = c, asking for *)
(* the active unit one or more times; the contexts interleave between      *)
(* enter, active() and exit.  ret[c] is the position of context c and what *)
(* active() last returned to it, acc the sequence of events so far, scopes *)
(* the units entered and not yet exited, in the order of their enters.     *)
(***************************************************************************)
Contexts == {1, 2}
MaxQueries == 2

Event(kind, c) == [kind |-> kind, ctx |-> c]

Without(s, u) == SelectSeq(s, LAMBDA v : v # u)

InitConcurrent ==
    /\ active = None
    /\ last_active = [u \in Units |-> None]
    /\ scopes = <<>>
    /\ raised = FALSE
    /\ unwound = FALSE
    /\ observed = NoObservation
    /\ unit = IdleUnit
    /\ acc = <<>>
    /\ ret = [c \in Contexts |->
                [pc |-> "start", queries |-> 0, seen |-> NoObservation]]

CtxEnter(c) ==
    /\ ret[c].pc = "start"
    /\ last_active' = EnterSaved(c)
    /\ active' = c
    /\ scopes' = Append(scopes, c)
    /\ ret' = [ret EXCEPT ![c].pc = "inside"]
    /\ acc' = Append(acc, Event("enter", c))
    /\ UNCHANGED <<raised, unwound, observed, unit>>

CtxQuery(c) ==
    /\ ret[c].pc = "inside"
    /\ ret[c].queries < MaxQueries
    /\ observed' = ActiveResult
    /\ ret' = [ret EXCEPT ![c].queries = @ + 1, ![c].seen = ActiveResult]
    /\ acc' = Append(acc, Event("active", c))
    /\ UNCHANGED <<active, last_active, scopes, raised, unwound, unit>>

CtxExit(c) ==
    /\ ret[c].pc = "inside"
    /\ ret[c].queries >= 1
    /\ active' = ExitRestored(c)
    /\ scopes' = Without(scopes, c)
    /\ ret' = [ret EXCEPT ![c].pc = "done"]
    /\ acc' = Append(acc, Event("exit", c))
    /\ UNCHANGED <<last_active, raised, unwound, observed, unit>>

NextConcurrent == \E c \in Contexts : CtxEnter(c) \/ CtxQuery(c) \/ CtxExit(c)

SpecConcurrent == InitConcurrent /\ [][NextConcurrent]_vars

\* Position of an event of context c in the sequence of events (0 if none;
\* the last one for active())
LastIndex(kind, c) ==
    LET I == { i \in 1..Len(acc) : acc[i] = Event(kind, c) }
    IN  IF I = {} THEN 0 ELSE CHOOSE i \in I : \A j \in I : j <= i

\* How many times the other context entered or exited between c's enter and
\* c's last active()
Interferences(c) ==
    Cardinality({ i \in (LastIndex("enter", c) + 1)..(LastIndex("active", c) - 1) :
                    acc[i].ctx # c /\ acc[i].kind \in {"enter", "exit"} })

AllDone == \A c \in Contexts : ret[c].pc = "done"

\* The two scopes overlapped without being nested: the context that
\* entered first also exited first.
Overlapped ==
    \E c \in Contexts, d \in Contexts :
        /\ LastIndex("enter", c) < LastIndex("enter", d)
        /\ LastIndex("enter", d) < LastIndex("exit", c)
        /\ LastIndex("exit", c) < LastIndex("exit", d)

\* C18: the single slot is not safe under two interleaving contexts: a
\* context inside its own scope is answered with a unit other than its own,
\* or with no unit, exactly when the other context entered or exited once
\* in between, and with both scopes exited the slot is left holding a unit
\* exactly when the two scopes overlapped without being nested.
C18_SlotUnsafeAcrossContexts ==
    /\ \A c \in Contexts :
          ret[c].queries >= 1 =>
            ((ret[c].seen.status # "ok" \/ ret[c].seen.unit # c)
               <=> Interferences(c) = 1)
    /\ AllDone => (active # None <=> Overlapped)

\* Both scopes are exited, the slot still holds a unit, and one context was
\* answered with the other context's unit inside its own scope.
C18_Witness ==
    /\ AllDone
    /\ active # None
    /\ \E c \in Contexts :
          ret[c].seen.status = "ok" /\ ret[c].seen.unit \notin {c, None}

\* ---------------------------------------------------------------------
\* The overflow policies called on their own: one call of wraparound or
\* saturate on an integer or an Interval of integers, over an integer
\* range, followed by a second call of the same policy on the result.

MaxRangeBound == 2
MaxExcess == 4

PolicyCall(op, value, range, out, again) ==
    [op |-> op, value |-> value, range |-> range, out |-> out,
     again |-> again]

PendingPolicy == [status |-> "pending"]

PolicyResult(res) ==
    [status |-> "ok", m |-> res.m, overflow |-> res.overflow]

PolicyRanges ==
    UNION { { Range(lo, hi) : hi \in lo..MaxRangeBound } :
              lo \in -MaxRangeBound..MaxRangeBound }

PolicyValues ==
    LET most == MaxRangeBound + MaxExcess
    IN  { Scalar(v) : v \in -most..most }
          \cup UNION { { Ivl(lo, hi) : hi \in lo..most } : lo \in -most..most }

InitOverflowPolicy ==
    /\ NoScopes
    /\ unit = IdleUnit
    /\ acc = IdleAcc
    /\ ret \in { PolicyCall(op, v, r, PendingPolicy, PendingPolicy) :
                   op \in OverflowPolicies, v \in PolicyValues,
                   r \in PolicyRanges }

CallWraparound ==
    /\ IsPending("wraparound")
    /\ ret' = [ret EXCEPT
                 !.out = PolicyResult(wraparound(ret.value, ret.range))]
    /\ UNCHANGED <<unit, acc, puVars>>

CallSaturate ==
    /\ IsPending("saturate")
    /\ ret' = [ret EXCEPT
                 !.out = PolicyResult(saturate(ret.value, ret.range))]
    /\ UNCHANGED <<unit, acc, puVars>>

\* The same policy applied to the value it has just returned.
CallAgain ==
    /\ ret.out.status = "ok"
    /\ ret.again.status = "pending"
    /\ ret' = [ret EXCEPT
                 !.again = PolicyResult(
                     overflow_behavior(ret.op, ret.out.m, ret.range))]
    /\ UNCHANGED <<unit, acc, puVars>>

NextOverflowPolicy == CallWraparound \/ CallSaturate \/ CallAgain

SpecOverflowPolicy == InitOverflowPolicy /\ [][NextOverflowPolicy]_vars

Outside(v, r) == v < r.lo \/ v > r.hi

\* C19: wraparound(v, r) over an integer range r = [lo, hi].  For an
\* integer v inside r the result is v with the flag false; for v outside r
\* it is ((v - lo) mod (hi + 1 - lo)) + lo with the flag true; the result is
\* always in r and congruent to v modulo the size of the range.  For an
\* Interval, if either bound is outside r the result is the whole range r
\* with the flag true, otherwise the Interval itself with the flag false.
C19_Wraparound ==
    ret.op = "wraparound" /\ ret.out.status = "ok" =>
      LET v == ret.value
          r == ret.range
          o == ret.out
          size == r.hi + 1 - r.lo
      IN  IF ~v.ivl
          THEN /\ ~o.m.ivl
               /\ o.overflow = Outside(v.lo, r)
               /\ ~Outside(v.lo, r) => o.m.lo = v.lo
               /\ Outside(v.lo, r) =>
                     o.m.lo = ((v.lo - r.lo) % size) + r.lo
               /\ ~Outside(o.m.lo, r)
               /\ (o.m.lo - v.lo) % size = 0
          ELSE /\ o.m.ivl
               /\ o.overflow = (Outside(v.lo, r) \/ Outside(v.hi, r))
               /\ o.overflow => o.m = Ivl(r.lo, r.hi)
               /\ ~o.overflow => o.m = v

\* An Interval whose lower bound is inside a range of several values and
\* whose upper bound lies more than one range size above it was wrapped:
\* the result is the whole range.
C19_Witness ==
    /\ ret.op = "wraparound" /\ ret.out.status = "ok"
    /\ ret.value.ivl
    /\ ret.range.lo < ret.range.hi
    /\ ~Outside(ret.value.lo, ret.range)
    /\ ret.value.hi > ret.range.hi + (ret.range.hi + 1 - ret.range.lo)
    /\ ret.out.overflow
    /\ ret.out.m = Ivl(ret.range.lo, ret.range.hi)

\* C20: saturate(v, r).  An integer v inside r is returned with the flag
\* false; below r the result is lo and above r it is hi, with the flag
\* true.  The bounds of an Interval are clamped one by one and the flag is
\* the OR of the two.  Saturating the result again returns it unchanged
\* with the flag false.
C20_Saturate ==
    ret.op = "saturate" /\ ret.out.status = "ok" =>
      LET v == ret.value
          r == ret.range
          o == ret.out
          Nearest(x) == IF x < r.lo THEN r.lo ELSE IF x > r.hi THEN r.hi ELSE x
      IN  /\ o.m.ivl = v.ivl
          /\ o.m.lo = Nearest(v.lo)
          /\ o.m.hi = Nearest(v.hi)
          /\ o.overflow = (Outside(v.lo, r) \/ Outside(v.hi, r))
          /\ ret.again.status = "ok" =>
                ret.again.m = o.m /\ ret.again.overflow = FALSE

\* An Interval reaching below the range, with its upper bound inside, was
\* saturated, and the result was saturated once more.
C20_Witness ==
    /\ ret.op = "saturate" /\ ret.again.status = "ok"
    /\ ret.value.ivl
    /\ ret.value.lo < ret.range.lo
    /\ ~Outside(ret.value.hi, ret.range)
    /\ ret.value.hi > ret.range.lo
    /\ ret.out.overflow
    /\ ret.out.m = Ivl(ret.range.lo, ret.value.hi)
    /\ ~ret.again.overflow

(***************************************************************************)
(* Interval on its own: construction, arithmetic and comparison of         *)
(* Intervals of integers with each other and with plain integers.  An      *)
(* operand is Scalar(v) or Ivl(lo, hi); a plain integer on the left of an   *)
(* operator reaches the Interval's reflected method.                        *)
(***************************************************************************)
IvMax == 3

\* Interval(lower_bound, upper_bound) with __post_init__'s check
MakeInterval(lo, hi) ==
    IF hi < lo THEN [status |-> "ValueError", lo |-> lo, hi |-> hi]
    ELSE [status |-> "ok", lo |-> lo, hi |-> hi]

\* Interval.__add__ and Interval.__radd__
IntervalAdd(x, y) == MakeInterval(x.lo + y.lo, x.hi + y.hi)

\* Interval.__sub__: self is the Interval, other an Interval or a plain value
IntervalSub(x, y) == MakeInterval(x.lo - y.hi, x.hi - y.lo)

\* Interval.__rsub__: other - self with other a plain value
IntervalRSub(other, x) == MakeInterval(other.lo - x.lo, other.lo - x.hi)

\* A product taken from the lower and upper bounds only
IntervalMulOfEnds(x, y) ==
    MakeInterval(Min2(x.lo * y.lo, x.hi * y.hi), Max2(x.lo * y.lo, x.hi * y.hi))

\* Interval.__mul__ and Interval.__rmul__: with a plain operand the four
\* products are two pairs of equal ones.
IntervalMul(x, y) ==
    MakeInterval(Min4(x.lo * y.lo, x.lo * y.hi, x.hi * y.lo, x.hi * y.hi),
                 Max4(x.lo * y.lo, x.lo * y.hi, x.hi * y.lo, x.hi * y.hi))

\* Interval.__neg__
IntervalNeg(x) == MakeInterval(-x.hi, -x.lo)

\* x op y as Python evaluates it when at least one operand is an Interval
IntervalArithmetic(op, x, y) ==
    CASE op = "construct" -> MakeInterval(x.lo, y.lo)
      [] op = "add" -> IntervalAdd(x, y)
      [] op = "sub" -> IF x.ivl THEN IntervalSub(x, y) ELSE IntervalRSub(x, y)
      [] op = "mul" -> IntervalMul(x, y)
      [] op = "neg" -> IntervalNeg(x)

\* Interval.__lt__ that also holds for Intervals sharing values
IntervalLtOverlapping(x, y) == x.lo < y.hi

\* Interval.__lt__, __le__, __gt__, __ge__, __eq__ with self = x
IntervalLt(x, y) == x.hi < y.lo
IntervalLe(x, y) == x.hi <= y.lo
IntervalGt(x, y) == x.lo > y.hi
IntervalGe(x, y) == x.lo >= y.hi
IntervalEq(x, y) == x.lo = y.lo /\ x.hi = y.hi

\* x op y: a plain x hands the comparison to the reflected method of y
IntervalCompare(op, x, y) ==
    CASE op = "lt" -> IF x.ivl THEN IntervalLt(x, y) ELSE IntervalGt(y, x)
      [] op = "le" -> IF x.ivl THEN IntervalLe(x, y) ELSE IntervalGe(y, x)
      [] op = "gt" -> IF x.ivl THEN IntervalGt(x, y) ELSE IntervalLt(y, x)
      [] op = "ge" -> IF x.ivl THEN IntervalGe(x, y) ELSE IntervalLe(y, x)
      [] op = "eq" -> IF x.ivl THEN IntervalEq(x, y) ELSE IntervalEq(y, x)

IntervalArithmeticOps == {"add", "sub", "mul", "neg"}
IntervalCompareOps == {"lt", "le", "gt", "ge", "eq"}

IntervalCall(op, x, y, out) == [op |-> op, x |-> x, y |-> y, out |-> out]

PendingInterval == [status |-> "pending"]

IvScalars == { Scalar(v) : v \in -IvMax..IvMax }
IvIntervals ==
    UNION { { Ivl(lo, hi) : hi \in lo..IvMax } : lo \in -IvMax..IvMax }

\* Pairs of operands with an Interval on at least one side
IvPairs ==
    (IvIntervals \X (IvIntervals \cup IvScalars))
      \cup (IvScalars \X IvIntervals)

InitInterval ==
    /\ NoScopes
    /\ unit = IdleUnit
    /\ acc = IdleAcc
    /\ ret \in { IntervalCall("construct", x, y, PendingInterval) :
                   x \in IvScalars, y \in IvScalars }
          \cup { IntervalCall(op, p[1], p[2], PendingInterval) :
                   op \in (IntervalArithmeticOps \ {"neg"})
                            \cup IntervalCompareOps,
                   p \in IvPairs }
          \cup { IntervalCall("neg", x, x, PendingInterval) :
                   x \in IvIntervals }

CallIntervalConstruct ==
    /\ IsPending("construct")
    /\ ret' = [ret EXCEPT !.out = IntervalArithmetic(ret.op, ret.x, ret.y)]
    /\ UNCHANGED <<unit, acc, puVars>>

CallIntervalArithmetic ==
    /\ ret.op \in IntervalArithmeticOps
    /\ ret.out.status = "pending"
    /\ ret' = [ret EXCEPT !.out = IntervalArithmetic(ret.op, ret.x, ret.y)]
    /\ UNCHANGED <<unit, acc, puVars>>

CallIntervalCompare ==
    /\ ret.op \in IntervalCompareOps
    /\ ret.out.status = "pending"
    /\ ret' = [ret EXCEPT !.out = [status |-> "ok",
                                   value |-> IntervalCompare(ret.op, ret.x,
                                                             ret.y)]]
    /\ UNCHANGED <<unit, acc, puVars>>

NextInterval ==
    CallIntervalConstruct \/ CallIntervalArithmetic \/ CallIntervalCompare

SpecInterval == InitInterval /\ [][NextInterval]_vars

\* C21: A * B is the Interval [min, max] of the four products of the bounds,
\* the hull of {a * b : a in A, b in B}: every product lies in it and both
\* of its bounds are products of members.
C21_ProductIsHull ==
    ret.op = "mul" /\ ret.out.status # "pending" =>
      LET A == ret.x
          B == ret.y
          o == ret.out
          products == { a * b : a \in A.lo..A.hi, b \in B.lo..B.hi }
      IN  /\ o.status = "ok"
          /\ o.lo = Min4(A.lo * B.lo, A.lo * B.hi, A.hi * B.lo, A.hi * B.hi)
          /\ o.hi = Max4(A.lo * B.lo, A.lo * B.hi, A.hi * B.lo, A.hi * B.hi)
          /\ \A c \in products : o.lo <= c /\ c <= o.hi
          /\ o.lo \in products /\ o.hi \in products
          /\ A = Ivl(-1, 1) /\ B = Ivl(-2, 2) => o.lo = -2 /\ o.hi = 2

\* [-1, 1] * [-2, 2] was computed and gave [-2, 2]
C21_Witness ==
    /\ ret.op = "mul" /\ ret.out.status = "ok"
    /\ ret.x = Ivl(-1, 1) /\ ret.y = Ivl(-2, 2)
    /\ ret.out.lo = -2 /\ ret.out.hi = 2

\* C22: with scalars taken as degenerate intervals, A < B iff A.hi < B.lo,
\* A <= B iff A.hi <= B.lo, A > B iff A.lo > B.hi, A >= B iff A.lo >= B.hi;
\* intervals that share more than a point compare false all four ways, and
\* a non-degenerate A equals itself while A <= A and A >= A are false.
C22_ConservativeOrder ==
    ret.op \in IntervalCompareOps /\ ret.out.status # "pending" =>
      LET A == ret.x
          B == ret.y
          shared == { v \in A.lo..A.hi : B.lo <= v /\ v <= B.hi }
      IN  /\ ret.op = "lt" => (ret.out.value <=> A.hi < B.lo)
          /\ ret.op = "le" => (ret.out.value <=> A.hi <= B.lo)
          /\ ret.op = "gt" => (ret.out.value <=> A.lo > B.hi)
          /\ ret.op = "ge" => (ret.out.value <=> A.lo >= B.hi)
          /\ ret.op = "lt" =>
               (ret.out.value <=>
                  \A a \in A.lo..A.hi : \A b \in B.lo..B.hi : a < b)
          /\ ret.op # "eq" /\ Cardinality(shared) > 1 => ~ret.out.value
          /\ A = B /\ A.lo < A.hi =>
               ret.out.value = (ret.op = "eq")

\* A non-degenerate Interval was compared with itself by <=
C22_Witness ==
    /\ ret.op = "le" /\ ret.out.status = "ok"
    /\ ret.x = ret.y /\ ret.x.ivl /\ ret.x.lo < ret.x.hi
    /\ ~ret.out.value

IsConstructed == ret.op = "construct" /\ ret.out.status # "pending"

\* C29 (as claimed): construction fails exactly when upper < lower, and
\* A + B, A - B, A * B, -A, s + A, s * A and s - A of valid operands exist
\* with lower <= upper, s - A being [s - A.hi, s - A.lo].
C29_ArithmeticKeepsValid ==
    /\ IsConstructed => (ret.out.status = "ValueError" <=> ret.y.lo < ret.x.lo)
    /\ ret.op \in IntervalArithmeticOps /\ ret.out.status # "pending" =>
         /\ ret.out.status = "ok"
         /\ ret.out.lo <= ret.out.hi
         /\ ret.op = "sub" /\ ~ret.x.ivl =>
              /\ ret.out.lo = ret.x.lo - ret.y.hi
              /\ ret.out.hi = ret.x.lo - ret.y.lo

(***************************************************************************)
(* FixedFormatArithmeticLogicUnit: the rounding-to-integer operations,     *)
(* negate and lshift, and single calls of every operation that can         *)
(* overflow, on units built with every kind of allows_overflow list.       *)
(***************************************************************************)
FixedRoundingOps == {"truncate", "floor", "ceil", "nearest"}

\* FixedFormatArithmeticLogicUnit.truncate / floor / ceil / nearest.  The
\* module imports nearest_integer only: in a fractional format truncate,
\* floor and ceil look up a name the module does not define, and nearest
\* calls the class nearest_integer, which takes no arguments.
FixedRoundingOp(u, op, x) ==
    IF ~FixedAccepts(u, x) THEN Raised("ValueError")
    ELSE IF x.format.lsb >= 0 THEN Returned(x.m, x.format)
    ELSE IF op = "nearest" THEN Raised("TypeError")
    ELSE Raised("NameError")

\* FixedFormatArithmeticLogicUnit.negate on a plain-integer mantissa
FixedNegate(u, x) ==
    IF ~FixedAccepts(u, x) THEN Raised("ValueError")
    ELSE IF ~u.format.signed THEN Raised("RuntimeError")
    ELSE IF x.m.lo = 0 THEN Returned(x.m, x.format)
    ELSE LET mantissa == Scalar(-x.m.lo)
         IN  IF OverflowsWith(u.format, mantissa)
             THEN FixedOverflow(u, "negate", mantissa, mantissa, u.format.lsb)
             ELSE Construct(mantissa, u.format)

\* FixedFormatArithmeticLogicUnit.lshift on a plain-integer mantissa
FixedLshift(u, x, n) ==
    IF ~FixedAccepts(u, x) THEN Raised("ValueError")
    ELSE IF n < 0 THEN Raised("ValueError")
    ELSE LET mantissa == Scalar(x.m.lo * Pow2(n))
         IN  IF OverflowsWith(u.format, mantissa)
             THEN FixedOverflow(u, "lshift", mantissa, mantissa, u.format.lsb)
             ELSE Construct(mantissa, u.format)

\* allows_overflow as passed to the constructor: True, False, or a list
\* holding one operation of the class
PermissionLists == {AllOps, {}} \cup { {op} : op \in AllOps }

PermissionUnits ==
    { FixedUnit(f, R, policy, ao, AllOps) :
        f \in FixedFormats, R \in {"floor", "nearest"},
        policy \in OverflowPolicies, ao \in PermissionLists }

ShiftCall(op, x, n, out) ==
    [op |-> op, x |-> x, y |-> NoRepr, n |-> n, out |-> out]

InitFixedOps ==
    /\ NoScopes
    /\ unit \in PermissionUnits
    /\ acc = IdleAcc
    /\ ret \in { Pending(op, Repr(mx, unit.format), Repr(my, unit.format)) :
                   op \in {"add", "substract", "multiply"},
                   mx \in Scalars(unit.format), my \in Scalars(unit.format) }
          \cup { Pending(op, Repr(mx, unit.format), NoRepr) :
                   op \in FixedRoundingOps \cup {"negate"},
                   mx \in Scalars(unit.format) }
          \cup { ShiftCall("lshift", Repr(mx, unit.format), n,
                           Raised("pending")) :
                   mx \in Scalars(unit.format), n \in 0..MaxShift }
          \cup { PendingOnValue("represent", v, unit.format, "none") :
                   v \in Reals(Fmt(FixedWordlength, 0, TRUE)) }

CallFixedAdd ==
    /\ IsPending("add")
    /\ ret' = [ret EXCEPT !.out = FixedAdd(unit, ret.x, ret.y)]
    /\ UNCHANGED <<unit, acc, puVars>>

CallFixedSubstract ==
    /\ IsPending("substract")
    /\ ret' = [ret EXCEPT !.out = FixedSubstract(unit, ret.x, ret.y)]
    /\ UNCHANGED <<unit, acc, puVars>>

CallFixedNegate ==
    /\ IsPending("negate")
    /\ ret' = [ret EXCEPT !.out = FixedNegate(unit, ret.x)]
    /\ UNCHANGED <<unit, acc, puVars>>

CallFixedLshift ==
    /\ IsPending("lshift")
    /\ ret' = [ret EXCEPT !.out = FixedLshift(unit, ret.x, ret.n)]
    /\ UNCHANGED <<unit, acc, puVars>>

CallFixedRoundingOp(op) ==
    /\ IsPending(op)
    /\ ret' = [ret EXCEPT !.out = FixedRoundingOp(unit, op, ret.x)]
    /\ UNCHANGED <<unit, acc, puVars>>

NextFixedOps ==
    \/ CallFixedAdd
    \/ CallFixedSubstract
    \/ CallFixedMultiply
    \/ CallFixedRepresent
    \/ CallFixedNegate
    \/ CallFixedLshift
    \/ \E op \in FixedRoundingOps : CallFixedRoundingOp(op)

SpecFixedOps == InitFixedOps /\ [][NextFixedOps]_vars

\* C23 (as claimed): truncate, floor, ceil and nearest return the operand
\* itself in an integer-valued format; in a fractional format they return a
\* Representation in the unit's format holding the operand's value rounded
\* to an integer by the named policy whenever that integer fits the format,
\* and otherwise either that integer corrected by the overflow policy or
\* OverflowError.
C23_RoundToInteger ==
    ret.op \in FixedRoundingOps /\ ret.out.status # "pending" =>
      IF ret.x.format.lsb >= 0
      THEN ret.out = Returned(ret.x.m, ret.x.format)
      ELSE LET k == -ret.x.format.lsb
               m == Scalar(Apply(ret.op, ret.x.m.lo, k) * Pow2(k))
           IN  /\ ret.out.status \in {"ok", "errors.OverflowError"}
               /\ ret.out.status = "ok" => ret.out.format = unit.format
               /\ ~OverflowsWith(unit.format, m) =>
                    ret.out.status = "ok" /\ ret.out.m = m

OverflowingOps ==
    {"represent", "add", "substract", "multiply", "negate", "lshift"}

\* The exact mantissa of an add, substract, negate or lshift call
ExactMantissa ==
    CASE ret.op = "add" -> Scalar(ret.x.m.lo + ret.y.m.lo)
      [] ret.op = "substract" -> Scalar(ret.x.m.lo - ret.y.m.lo)
      [] ret.op = "negate" -> Scalar(-ret.x.m.lo)
      [] ret.op = "lshift" -> Scalar(ret.x.m.lo * Pow2(ret.n))

\* C25 (as claimed): an operation raises OverflowError only when it is not
\* itself in the allows_overflow list, and an add, substract, negate or
\* lshift whose exact result does not fit the format returns a corrected
\* value whenever the operation itself is in the list.
C25_OwnEntryGoverns ==
    ret.op \in OverflowingOps /\ ret.out.status # "pending" =>
      /\ ret.out.status = "errors.OverflowError" =>
           ret.op \notin unit.allows_overflow
      /\ ret.op \in {"add", "substract", "negate", "lshift"}
           /\ (ret.op = "negate" => unit.format.signed)
           /\ OverflowsWith(unit.format, ExactMantissa)
           /\ ret.op \notin unit.allows_overflow =>
             ret.out.status = "errors.OverflowError"

(***************************************************************************)
(* Format notations.  A notation is text, modelled as a sequence of         *)
(* one-character strings; integers are printed in decimal as str.format     *)
(* prints them and read back as the patterns' groups and int() read them.   *)
(***************************************************************************)
NotationMax == 11

DigitChars == <<"0", "1", "2", "3", "4", "5", "6", "7", "8", "9">>
IsDigit(c) == \E d \in 1..10 : DigitChars[d] = c
DigitValue(c) == (CHOOSE d \in 1..10 : DigitChars[d] = c) - 1

RECURSIVE DecNat(_)
\* "{}".format(n) for n >= 0
DecNat(n) ==
    IF n < 10 THEN <<DigitChars[n + 1]>>
    ELSE Append(DecNat(n \div 10), DigitChars[(n % 10) + 1])

\* "{}".format(n)
Dec(n) == IF n < 0 THEN <<"-">> \o DecNat(-n) ELSE DecNat(n)

RECURSIVE NatOf(_)
\* int() of a run of digits
NatOf(t) ==
    IF t = <<>> THEN 0
    ELSE NatOf(SubSeq(t, 1, Len(t) - 1)) * 10 + DigitValue(t[Len(t)])

\* The digits of a group [+-]?[0-9]+
Unsigned(t) == IF t # <<>> /\ t[1] \in {"+", "-"} THEN Tail(t) ELSE t
AllDigits(t) == t # <<>> /\ \A i \in 1..Len(t) : IsDigit(t[i])
IsInt(t) == AllDigits(Unsigned(t))
\* int() of a group [+-]?[0-9]+
IntOf(t) == IF t[1] = "-" THEN -NatOf(Tail(t)) ELSE NatOf(Unsigned(t))

\* Format(msb, lsb, signed) with __post_init__'s check
NewFormat(msb, lsb, signed) ==
    IF lsb > msb THEN [status |-> "ValueError", format |-> NoFormat]
    ELSE [status |-> "ok", format |-> Fmt(msb, lsb, signed)]

NotParsed == [status |-> "ValueError", format |-> NoFormat]

\* The group ([su]?) and what follows it
HasPrefix(t) == t # <<>> /\ t[1] \in {"s", "u"}
AfterPrefix(t) == IF HasPrefix(t) THEN Tail(t) ELSE t
SignedPrefix(t) == ~(HasPrefix(t) /\ t[1] = "u")

\* The places where the separator stands in the text
Places(t, sep) == { i \in 1..Len(t) : t[i] = sep }

\* Two integer groups around the only separator of body, as msb and lsb
Groups(body, sep) ==
    IF Cardinality(Places(body, sep)) # 1 THEN <<>>
    ELSE <<SubSeq(body, 1, (CHOOSE i \in Places(body, sep) : TRUE) - 1),
           SubSeq(body, (CHOOSE i \in Places(body, sep) : TRUE) + 1,
                  Len(body))>>

BothInts(groups) == groups # <<>> /\ IsInt(groups[1]) /\ IsInt(groups[2])

\* Format.from_qnotation once the text has matched "Q<int>.<int>"
QFormat(groups, signed) ==
    IF ~BothInts(groups) THEN NotParsed
    ELSE NewFormat(IntOf(groups[1]) - (IF signed THEN 1 ELSE 0),
                   -IntOf(groups[2]), signed)

\* Format.from_qnotation
from_qnotation(t) ==
    IF AfterPrefix(t) = <<>> \/ Head(AfterPrefix(t)) # "Q" THEN NotParsed
    ELSE QFormat(Groups(Tail(AfterPrefix(t)), "."), SignedPrefix(t))

\* Format.from_pnotation once the text has matched "(<int>,<int>)"
PFormat(groups, signed) ==
    IF ~BothInts(groups) THEN NotParsed
    ELSE NewFormat(IntOf(groups[1]), IntOf(groups[2]), signed)

\* Format.from_pnotation
from_pnotation(t) ==
    IF Len(AfterPrefix(t)) < 2 \/ Head(AfterPrefix(t)) # "("
         \/ AfterPrefix(t)[Len(AfterPrefix(t))] # ")"
    THEN NotParsed
    ELSE PFormat(Groups(SubSeq(AfterPrefix(t), 2, Len(AfterPrefix(t)) - 1),
                        ","),
                 SignedPrefix(t))

FirstParsed(q, t) == IF q.status = "ok" THEN q ELSE from_pnotation(t)

\* Format.from_notation: Q notation first, then parenthesis notation
from_notation(t) == FirstParsed(from_qnotation(t), t)

WithUnsignedMark(f, notation) ==
    IF f.signed THEN notation ELSE <<"u">> \o notation

\* A Q notation that prints the MSB as it is
to_qnotationOfMsb(f) ==
    WithUnsignedMark(f, <<"Q">> \o Dec(f.msb) \o <<".">> \o Dec(-f.lsb))

\* Format.to_qnotation
to_qnotation(f) ==
    WithUnsignedMark(f, <<"Q">> \o Dec(f.msb + (IF f.signed THEN 1 ELSE 0))
                          \o <<".">> \o Dec(-f.lsb))

\* Format.to_pnotation
to_pnotation(f) ==
    WithUnsignedMark(f, <<"(">> \o Dec(f.msb) \o <<",">> \o Dec(f.lsb)
                          \o <<")">>)

\* Format.Q(a, b), uQ(a, b), P(a, b), uP(a, b)
Factory(name, a, b) ==
    CASE name = "Q" -> NewFormat(a - 1, -b, TRUE)
      [] name = "uQ" -> NewFormat(a, -b, FALSE)
      [] name = "P" -> NewFormat(a, b, TRUE)
      [] name = "uP" -> NewFormat(a, b, FALSE)

\* The text 'Qa.b', 'uQa.b', '(a,b)' or 'u(a,b)' an f-string builds
FactoryText(name, a, b) ==
    CASE name = "Q" -> <<"Q">> \o Dec(a) \o <<".">> \o Dec(b)
      [] name = "uQ" -> <<"u", "Q">> \o Dec(a) \o <<".">> \o Dec(b)
      [] name = "P" -> <<"(">> \o Dec(a) \o <<",">> \o Dec(b) \o <<")">>
      [] name = "uP" -> <<"u", "(">> \o Dec(a) \o <<",">> \o Dec(b) \o <<")">>

Factories == {"Q", "uQ", "P", "uP"}

NotationFormats ==
    UNION { { Fmt(msb, lsb, signed) : msb \in lsb..NotationMax,
                                      signed \in BOOLEAN } :
              lsb \in -NotationMax..NotationMax }

\* A call: a format printed and read back, or a factory next to the parser
NotationCall(op, f, a, b, text, out) ==
    [op |-> op, f |-> f, a |-> a, b |-> b, text |-> text, out |-> out]

PendingNotation == [status |-> "pending"]

InitNotation ==
    /\ NoScopes
    /\ unit = IdleUnit
    /\ acc = IdleAcc
    /\ ret \in { NotationCall(op, f, 0, 0, <<>>, PendingNotation) :
                   op \in {"to_qnotation", "to_pnotation"},
                   f \in NotationFormats }
          \cup { NotationCall(name, NoFormat, a, b, <<>>, PendingNotation) :
                   name \in Factories,
                   a \in -NotationMax..NotationMax,
                   b \in -NotationMax..NotationMax }

CallToQNotation ==
    /\ ret.op = "to_qnotation" /\ ret.text = <<>>
    /\ ret' = [ret EXCEPT !.text = to_qnotation(ret.f)]
    /\ UNCHANGED <<unit, acc, puVars>>

CallToPNotation ==
    /\ ret.op = "to_pnotation" /\ ret.text = <<>>
    /\ ret' = [ret EXCEPT !.text = to_pnotation(ret.f)]
    /\ UNCHANGED <<unit, acc, puVars>>

\* The factory call; the text handed to the parser is put next to it
CallFactory ==
    /\ ret.op \in Factories /\ ret.text = <<>>
    /\ ret' = [ret EXCEPT !.f = Factory(ret.op, ret.a, ret.b),
                          !.text = FactoryText(ret.op, ret.a, ret.b)]
    /\ UNCHANGED <<unit, acc, puVars>>

CallFromNotation ==
    /\ ret.text # <<>> /\ ret.out.status = "pending"
    /\ ret' = [ret EXCEPT !.out = from_notation(ret.text)]
    /\ UNCHANGED <<unit, acc, puVars>>

NextNotation ==
    CallToQNotation \/ CallToPNotation \/ CallFactory \/ CallFromNotation

SpecNotation == InitNotation /\ [][NextNotation]_vars

\* C24: a Format printed in Q notation or in parenthesis notation is read
\* back by from_notation as the same Format, and whenever Q, uQ, P or uP
\* builds a Format, from_notation of the matching text builds an equal one.
C24_NotationRoundTrip ==
    ret.out.status # "pending" =>
      /\ ret.op \in {"to_qnotation", "to_pnotation"} =>
           ret.out.status = "ok" /\ ret.out.format = ret.f
      /\ ret.op \in Factories /\ ret.f.status = "ok" =>
           ret.out.status = "ok" /\ ret.out.format = ret.f.format

\* A signed format with a two-digit negative MSB and LSB went through Q
\* notation and back
C24_Witness ==
    /\ ret.op = "to_qnotation" /\ ret.out.status = "ok"
    /\ ret.f.signed /\ ret.f.msb <= -10 /\ ret.f.lsb < -10
    /\ ret.text[1] = "Q" /\ ret.text[2] = "-"
    /\ ret.out.format = ret.f

\* C26 (as claimed): for every rounding policy R, every integer mantissa v
\* and every shift n < 0, R.shift(v, n) returns R.apply(v / 2^(-n)), ties
\* under nearest and negative v under truncate included.
C26_ShiftAgreesWithApply ==
    ret.op = "shift" /\ ret.out.status # "pending" =>
      /\ ret.out.status = "ok"
      /\ ret.out.m.lo = Apply(ret.R, ret.value, ret.output_lsb - ret.input_lsb)

(***************************************************************************)
(* MultiFormatArithmeticLogicUnit.compare                                  *)
(***************************************************************************)
Compared(status, value) == [status |-> status, value |-> value]

\* mantissa_x - mantissa_y once both operands are aligned
ComparedAligned(ax, ay) ==
    IF ax.status # "ok" THEN Compared(ax.status, 0)
    ELSE IF ay.status # "ok" THEN Compared(ay.status, 0)
    ELSE Compared("ok", ax.m.lo - ay.m.lo)

\* The two operands aligned to the common format fz
ComparedIn(u, x, y, fz) ==
    ComparedAligned(
        align_operand_mantissa(u, x, fz, AllowsUnderflow(u, "compare")),
        align_operand_mantissa(u, y, fz, AllowsUnderflow(u, "compare")))

\* MultiFormatArithmeticLogicUnit.compare on plain-integer mantissas
MultiCompare(u, x, y) ==
    IF ~MultiAccepts(u, x, y) THEN Compared("ValueError", 0)
    ELSE ComparedIn(u, x, y, find_common_format(u, x.format, y.format))

InitMultiCompare ==
    /\ NoScopes
    /\ unit \in MultiUnitsByRounding
    /\ acc = IdleAcc
    /\ ret \in { [p EXCEPT !.out = Compared("pending", 0)] :
                   p \in PendingPairs("compare", unit.wordlength) }

CallMultiCompare ==
    /\ IsPending("compare")
    /\ ret' = [ret EXCEPT !.out = MultiCompare(unit, ret.x, ret.y)]
    /\ UNCHANGED <<unit, acc, puVars>>

NextMultiCompare == CallMultiCompare

SpecMultiCompare == InitMultiCompare /\ [][NextMultiCompare]_vars

Sign(n) == IF n < 0 THEN -1 ELSE IF n > 0 THEN 1 ELSE 0

\* value(x) - value(y) in units of the finer of the two LSBs
ExactDifference(x, y) ==
    x.m.lo * Pow2(x.format.lsb - Min2(x.format.lsb, y.format.lsb))
      - y.m.lo * Pow2(y.format.lsb - Min2(x.format.lsb, y.format.lsb))

\* C27 (as claimed): for operands of any two formats the unit accepts,
\* compare(x, y) returns a number with the sign of value(x) - value(y).
C27_CompareSign ==
    ret.op = "compare" /\ ret.out.status # "pending" =>
      /\ ret.out.status = "ok"
      /\ Sign(ret.out.value) = Sign(ExactDifference(ret.x, ret.y))

\* C28 (as claimed): the error bounds of an error-bounded difference hold
\* the error of every pair of actual values: for every ex in Ex and ey in
\* Ey, (x + ex) - (y + ey) - (x - y) = ex - ey lies in the bounds of x - y.
C28_SubtractionSound ==
    ret.op = "eb_sub" /\ ret.out.status # "pending" =>
      LET left == IF ret.reflected THEN ret.other ELSE ret.self
          right == IF ret.reflected THEN ret.self ELSE ret.other
      IN  /\ ret.out.status = "ok"
          /\ \A ex \in left.lo..left.hi : \A ey \in right.lo..right.hi :
               ret.out.lo <= ex - ey /\ ex - ey <= ret.out.hi


\* ---------------------------------------------------------------------
\* Traceable: trace() and notrace() scopes around public-method calls.
\* acc holds the object (its _traces list, every list trace() created) and
\* the nesting of with-blocks and method invocations around the current
\* point of execution; ret holds the scope exit that just happened.
\* Lists are named by their creation index, so that _traces is a sequence
\* of list names as the code's is a list of list objects.
\* ---------------------------------------------------------------------
MaxNesting == 4
MaxCalls == 3
MaxTraces == 2

PublicMethods == {"do_once", "do_twice"}

\* wrap_init: the object starts with no open trace.
TraceableInit ==
    [traces |-> <<>>, lists |-> <<>>, stack |-> <<>>, log |-> <<>>,
     ncalls |-> 0, raising |-> FALSE]

InnerFrame(o) == o.stack[Len(o.stack)]

Unnested(o) == SubSeq(o.stack, 1, Len(o.stack) - 1)

\* The trace lists whose scope is open, and whether a notrace scope is.
OpenTraces(o) ==
    {o.stack[i].id : i \in {j \in 1..Len(o.stack) : o.stack[j].kind = "trace"}}

NotraceOpen(o) == \E i \in 1..Len(o.stack) : o.stack[i].kind = "notrace"

\* trace(), up to the yield: a new list is appended to _traces.
TraceEnter(o) ==
    LET id == Len(o.lists) + 1
    IN  [o EXCEPT !.lists = Append(@, <<>>),
                  !.traces = Append(@, id),
                  !.stack = Append(@, [kind |-> "trace", id |-> id,
                                       entry |-> o.traces])]

\* trace(), the finally clause: the last element of _traces is popped.
TraceExit(o) ==
    [o EXCEPT !.traces = SubSeq(@, 1, Len(@) - 1), !.stack = Unnested(o)]

\* notrace(), up to the yield: _traces is put aside and replaced by [].
NotraceEnter(o) ==
    [o EXCEPT !.traces = <<>>,
              !.stack = Append(@, [kind |-> "notrace", saved |-> o.traces,
                                   entry |-> o.traces])]

\* notrace(), the finally clause: the list put aside is _traces again.
NotraceExit(o) ==
    [o EXCEPT !.traces = InnerFrame(o).saved, !.stack = Unnested(o)]

\* The record of a call: operation, result, and the call's arguments (the
\* call number stands for args and kwargs).
TraceRecord(call) == [op |-> call.op, result |-> TRUE, args |-> call.args]

\* The wrapped method returning: the record is appended to every list of
\* _traces, then the result is returned.
AppendToOne(o, rec) ==
    [t \in 1..Len(o.lists) |->
        IF \E i \in 1..Len(o.traces) : o.traces[i] = t
        THEN Append(o.lists[t], rec)
        ELSE o.lists[t]]

WrappedReturn(o) ==
    LET rec == TraceRecord(InnerFrame(o))
    IN  [o EXCEPT !.lists = AppendToOne(o, rec),
                  !.log = Append(@, [rec |-> rec, open |-> OpenTraces(o),
                                     notrace |-> NotraceOpen(o),
                                     traces |-> o.traces]),
                  !.stack = Unnested(o)]

\* The wrapped method raising: method() raised, so nothing is appended.
WrappedRaise(o) == [o EXCEPT !.stack = Unnested(o), !.raising = TRUE]

NoExit == [op |-> "none"]

InitTracing ==
    /\ NoScopes
    /\ unit = IdleUnit
    /\ acc = TraceableInit
    /\ ret = NoExit

CanNest == ~acc.raising /\ Len(acc.stack) < MaxNesting

EnterTrace ==
    /\ CanNest
    /\ Len(acc.lists) < MaxTraces
    /\ acc' = TraceEnter(acc)
    /\ ret' = NoExit
    /\ UNCHANGED <<unit, puVars>>

EnterNotrace ==
    /\ CanNest
    /\ acc' = NotraceEnter(acc)
    /\ ret' = NoExit
    /\ UNCHANGED <<unit, puVars>>

\* Leaving a scope, normally or with an exception on its way out.
ExitTrace ==
    /\ acc.stack # <<>>
    /\ InnerFrame(acc).kind = "trace"
    /\ acc' = TraceExit(acc)
    /\ ret' = [op |-> "exit_trace", entry |-> InnerFrame(acc).entry,
               after |-> acc'.traces, exception |-> acc.raising]
    /\ UNCHANGED <<unit, puVars>>

ExitNotrace ==
    /\ acc.stack # <<>>
    /\ InnerFrame(acc).kind = "notrace"
    /\ acc' = NotraceExit(acc)
    /\ ret' = [op |-> "exit_notrace", entry |-> InnerFrame(acc).entry,
               after |-> acc'.traces, exception |-> acc.raising]
    /\ UNCHANGED <<unit, puVars>>

\* A public method is called: its body runs until it returns or raises.
BeginCall ==
    /\ CanNest
    /\ acc.ncalls < MaxCalls
    /\ \E op \in PublicMethods :
         acc' = [acc EXCEPT !.ncalls = @ + 1,
                            !.stack = Append(@, [kind |-> "call", op |-> op,
                                                 args |-> acc.ncalls + 1])]
    /\ ret' = NoExit
    /\ UNCHANGED <<unit, puVars>>

CompleteCall ==
    /\ ~acc.raising
    /\ acc.stack # <<>>
    /\ InnerFrame(acc).kind = "call"
    /\ acc' = WrappedReturn(acc)
    /\ ret' = NoExit
    /\ UNCHANGED <<unit, puVars>>

\* The body of the innermost call raises, or an exception passes through it.
RaiseInCall ==
    /\ acc.stack # <<>>
    /\ InnerFrame(acc).kind = "call"
    /\ acc' = WrappedRaise(acc)
    /\ ret' = NoExit
    /\ UNCHANGED <<unit, puVars>>

\* The body of a with-block raises.
RaiseInScope ==
    /\ ~acc.raising
    /\ acc.stack # <<>>
    /\ InnerFrame(acc).kind # "call"
    /\ acc' = [acc EXCEPT !.raising = TRUE]
    /\ ret' = NoExit
    /\ UNCHANGED <<unit, puVars>>

\* The exception is handled at the current level.
CatchException ==
    /\ acc.raising
    /\ acc' = [acc EXCEPT !.raising = FALSE]
    /\ ret' = NoExit
    /\ UNCHANGED <<unit, puVars>>

NextTracing ==
    \/ EnterTrace
    \/ EnterNotrace
    \/ ExitTrace
    \/ ExitNotrace
    \/ BeginCall
    \/ CompleteCall
    \/ RaiseInCall
    \/ RaiseInScope
    \/ CatchException

SpecTracing == InitTracing /\ [][NextTracing]_vars

\* The records list t is to hold: those of the calls that completed while
\* the scope of t was open and no notrace scope was, in order of completion.
RecordsDue(t) ==
    LET Due(c) == t \in c.open /\ ~c.notrace
        due == SelectSeq(acc.log, Due)
    IN  [i \in 1..Len(due) |-> due[i].rec]

\* C30 (as claimed): the list of a trace() scope holds one record for every
\* call that completed while the scope was open, in order of completion,
\* each open trace receiving it; a call completing outside any trace scope
\* or while a notrace() scope is open is recorded in no list; and leaving a
\* trace() or notrace() scope, normally or by exception, leaves _traces as
\* it was when the scope was entered.
C30_TraceScopes ==
    /\ \A t \in 1..Len(acc.lists) : acc.lists[t] = RecordsDue(t)
    /\ ret.op \in {"exit_trace", "exit_notrace"} => ret.after = ret.entry

====
